---- MODULE Spec2Model ----
(***************************************************************************)
(* Model of the processing engine of masx_ai_etl_cpu_pipeline:             *)
(*   - PipelineManager.process_batch / _process_sub_batch (batch executor) *)
(*   - PipelineManager.process_article (per-article pipeline)              *)
(*   - ProxyService proxy cache as the pipeline stages read and write it   *)
(*                                                                         *)
(* process_batch and process_article are coroutines: every action below    *)
(* is one stretch of a coroutine between two suspension points.            *)
(***************************************************************************)
EXTENDS Integers, Sequences, FiniteSets, TLC

(***************************************************************************)
(* Bounds of the model.                                                    *)
(***************************************************************************)
\* number of articles handed to the process_batch call of run 1
NumArticles == 3
\* settings.max_workers (environment MAX_WORKERS), a positive integer
MaxWorkers == 2

\* the clock advances in steps of ClockStep seconds, up to MaxClock
ClockStep == 60
MaxClock == 180

\* the capacity of the translation cache (CACHE_SIZE, scaled down)
CacheSize == 1

\* CACHE_SIZE where the order of use of the entries is followed
CacheCapacity == 2

\* self.chunk_chars of the entity tagger, and the longest text given to it
ChunkChars == 3
MaxTextLen == 6

\* the largest settings.retry_attempts and settings.retry_delay
MaxRetryAttempts == 3
MaxRetryDelay == 3

\* the candidate images of one article
NumImages == 3

\* ImageDownloader.max_concurrency (default 4, scaled down)
MaxConcurrency == 2

\* the proxies the proxy service lists in one response
NumProxies == 2

\* the requests a server handles
MaxRequests == 2

\* translation_manager.py, Configs
FAIL_THRESHOLD == 3
COOLDOWN_SEC == 120

\* process_batch calls that may be in flight in one process
Runs == {1, 2}

IdNames == <<"a1", "a2", "a3", "a4", "a5", "a6">>
FlashpointNames == <<"fp1", "fp2">>

\* models.feed_models.FeedModel as the pipeline reads it
FeedModel(i) ==
    [id |-> IdNames[i],
     flashpoint_id |-> FlashpointNames[((i - 1) % 2) + 1],
     url |-> i]

FeedList(lo, hi) == [k \in 1..(hi - lo + 1) |-> FeedModel(lo + k - 1)]

\* the value None
None == [none |-> TRUE]

(***************************************************************************)
(* State.                                                                  *)
(***************************************************************************)
VARIABLES
    proxy_cache,    \* ProxyService._proxy_cache: "empty" or "full"
    batch,          \* per run: the local state of the process_batch call
    task,           \* per run, per article index: the asyncio task of process_article
    out_of_order,   \* per run: some task returned while an earlier task of its sub-batch
                    \* was still running (history)
    feed_pc,        \* per request: where its process_all_feed_entries call stands
    feed_run,       \* per request: the /feed/process handler's locals and those of
                    \* its process_all_feed_entries call
    feed_date,      \* FeedProcessor.date (one FeedProcessor per process)
    all_feed_entries,   \* the dates FeedProcessor.all_feed_entries holds
    db,             \* the rows the store has accepted an update for
    refresher_task, \* ProxyService._refresher_task: 0 (None) or the request that created it
    refreshers,     \* the refresher tasks alive, each named by the request that created it
    processing_stats,   \* FeedProcessor.processing_stats["total_processed"]
    clock,          \* time.time(), in seconds since the process started
    circuits,       \* TranslationManager.circuits: per provider, fail_count and open_until
    providers_enabled,  \* TranslationManager.providers_enabled
    translation_cache,  \* TranslationManager._cache, least recently used first
    last_call,      \* the latest translate call: its arguments and what it did (history)
    streak,         \* per provider: failures since its last success (history)
    tried_barred,   \* the providers some call tried while open or disabled (history)
    download,       \* per download_images call: its position, folder, candidates, result
    fetch,          \* per download_images call, per candidate: the _process_one task
    bucket,         \* the objects the storage bucket holds, each named by its path
    proxy_call,     \* per caller of ProxyService: where its call stands, what it got
    loop_holder,    \* the caller whose validate_proxies occupies the event loop
    deployment,     \* which server the process runs and settings.require_api_key
    http,           \* the request handled last, its response, the requests so far
    feed_counts,    \* the latest _process_feed_entries(_batch) call: inputs and counts
    loop_task,      \* per article task on the event loop: the call it is inside
    cache_use,      \* what the uses of the translation cache were: order, last eviction
    extraction,     \* the latest _scrape_multilang_feeds call: what the extractors gave, its end
    chunking,       \* the latest _iter_chunks call: its text and the chunks it yielded
    connection      \* the connect call of the database client: settings, attempts, waits

feed_vars ==
    <<feed_pc, feed_run, feed_date, all_feed_entries, db, refresher_task, refreshers, processing_stats>>

translation_vars ==
    <<clock, circuits, providers_enabled, translation_cache, last_call, streak,
      tried_barred>>

\* the state outside the batch executor
image_vars == <<download, fetch, bucket>>

proxy_vars == <<proxy_call, loop_holder>>

api_vars == <<deployment, http, feed_counts>>

aside_vars == <<loop_task, cache_use, extraction, chunking, connection>>

outside_pipeline == <<feed_vars, translation_vars, image_vars, proxy_vars, api_vars, aside_vars>>

beside_feed == <<translation_vars, image_vars, proxy_vars, api_vars, aside_vars>>

beside_translation == <<feed_vars, image_vars, proxy_vars, api_vars, aside_vars>>

beside_images == <<feed_vars, translation_vars, proxy_vars, api_vars, aside_vars>>

beside_proxy == <<feed_vars, translation_vars, image_vars, api_vars, aside_vars>>

beside_api == <<translation_vars, image_vars, proxy_vars, aside_vars>>

vars == <<proxy_cache, batch, task, out_of_order, outside_pipeline>>

\* no /feed/process request received yet
FeedIdle ==
    [trigger |-> "", requested |-> "", loaded |-> "", entries |-> <<>>,
     data_results |-> None, batch_date |-> "", results |-> None, response |-> None,
     ret |-> None]

FeedAtRest ==
    /\ feed_pc = [r \in Runs |-> "idle"]
    /\ feed_run = [r \in Runs |-> FeedIdle]
    /\ feed_date = "today"
    /\ all_feed_entries = {}
    /\ db = {}
    /\ refresher_task = 0
    /\ refreshers = {}
    /\ processing_stats = 0

Providers == {"google", "mymemory", "freeapi"}

\* Circuit.__init__
CircuitNew == [fail_count |-> 0, open_until |-> 0]

\* no translate call made yet
NoCall ==
    [key |-> <<>>, held |-> None, res |-> None, raised |-> FALSE, tried |-> {},
     delivered |-> {}, skipped |-> {}, passed_over |-> {}]

\* TranslationManager.__init__, with every provider enabled
TranslationAtRest ==
    /\ clock = 0
    /\ circuits = [p \in Providers |-> CircuitNew]
    /\ providers_enabled = [p \in Providers |-> TRUE]
    /\ translation_cache = <<>>
    /\ last_call = NoCall
    /\ streak = [p \in Providers |-> 0]
    /\ tried_barred = {}

\* the download_images calls the model follows
Calls == {1, 2}

\* download_images not called yet
NoDownload == [pc |-> "idle", article |-> 0, path |-> <<>>, urls |-> <<>>, images |-> <<>>]

\* an empty bucket, no download_images call made
ImagesAtRest ==
    /\ download = [c \in Calls |-> NoDownload]
    /\ fetch = [c \in Calls |-> <<>>]
    /\ bucket = {}

\* the callers of ProxyService: NewsContentExtractor.extract_feed
\* (force_refresh=True), PipelineManager._translate_title (force_refresh
\* False) and the background refresher's _refresh
ProxyCallers == {"extract_feed", "translate_title", "refresher"}

\* no call of the proxy service under way
NoProxyCall ==
    [pc |-> "idle", outcome |-> "none", passes |-> 0, left |-> 0,
     proxies |-> "empty", raised |-> FALSE]

ProxyCallsAtRest ==
    /\ proxy_call = [k \in ProxyCallers |-> NoProxyCall]
    /\ loop_holder = "nobody"

\* the two servers of the repository: api/server.py and api_flask/server_flask.py
Servers == {"fastapi", "flask"}

\* no request handled yet
NoRequest == [count |-> 0, request |-> None, response |-> None]

\* the FastAPI server with require_api_key on, no request received
ApiAtRest ==
    /\ deployment = [server |-> "fastapi", require_api_key |-> TRUE]
    /\ http = NoRequest
    /\ feed_counts = None

\* no article task on the event loop
\* the translation cache has not been used
NoCacheUse == [used |-> <<>>, put |-> <<>>, evicted |-> {}, lru |-> {}, oldest |-> {}]

\* no article task on the event loop, no use of the translation cache, no
\* extraction
AsideAtRest ==
    /\ loop_task = <<>>
    /\ cache_use = NoCacheUse
    /\ extraction = None
    /\ chunking = None
    /\ connection = None

BesideFeedAtRest ==
    TranslationAtRest /\ ImagesAtRest /\ ProxyCallsAtRest /\ ApiAtRest /\ AsideAtRest

OutsideAtRest == FeedAtRest /\ BesideFeedAtRest

(***************************************************************************)
(* Proxy service.                                                          *)
(***************************************************************************)
\* what one call of ProxyService.__get_proxies can do:
\*   "valid"      200, data, some proxies pass validation
\*   "none_valid" 200, data, no proxy passes validation
\*   "no_data"    200, empty data
\*   "raise"      ServiceException (401, 429, other status, network, timeout)
ProxyFetchOutcomes == {"valid", "none_valid", "no_data", "raise"}

\* ProxyService.__get_proxies: [cache after the call, proxies returned, raised]
GetProxies(cache, outcome) ==
    CASE outcome = "valid"      -> [cache |-> "full",  proxies |-> "full",  raised |-> FALSE]
      [] outcome = "none_valid" -> [cache |-> "empty", proxies |-> "empty", raised |-> FALSE]
      [] outcome = "no_data"    -> [cache |-> cache,   proxies |-> "empty", raised |-> FALSE]
      [] OTHER                  -> [cache |-> cache,   proxies |-> "empty", raised |-> TRUE]

\* ProxyService.get_proxy_cache(force_refresh)
GetProxyCache(cache, force_refresh, outcome) ==
    IF cache = "empty" \/ force_refresh
    THEN LET g == GetProxies(cache, outcome)
         IN  IF g.raised
             THEN g
             ELSE [cache |-> g.proxies, proxies |-> g.proxies, raised |-> FALSE]
    ELSE [cache |-> cache, proxies |-> cache, raised |-> FALSE]

\* ProxyService._refresh, run by the background refresher loop
RefreshedCache(cache, outcome) ==
    LET g == GetProxies(cache, outcome)
    IN  IF ~g.raised /\ g.proxies = "full" THEN "full" ELSE g.cache


(***************************************************************************)
(* Per-article pipeline: PipelineManager.process_article.                  *)
(***************************************************************************)
\* models.extract_result.ExtractResult() with its field defaults
ExtractResult ==
    [id |-> "", parent_id |-> "", url |-> 0, language |-> "",
     images |-> <<>>, entities |-> "None", geo_entities |-> <<>>]

\* process_article, lines 108-114: the working record of a new pipeline
NewExtractedData(article_data) ==
    [ExtractResult EXCEPT !.id = article_data.id,
                          !.parent_id = article_data.flashpoint_id,
                          !.url = article_data.url]

\* main image the article extractor reports ("" when the page names none)
MainImages == {"", "img"}
\* what the two extraction stages end in once proxies are at hand
ScrapeOutcomes == {"article", "fail"}

\* TrafilaturaExtractor: ExtractResult(url=..., images=[main_image], ...);
\* id and parent_id are not passed and keep their defaults
ScrapedResult(url, main_image) ==
    [ExtractResult EXCEPT !.url = url, !.images = <<main_image>>]

\* NewsContentExtractor.extract_feed(url): [raised, e, value]
ExtractFeed(url, proxies, raised_by_proxy, outcome, main_image) ==
    IF raised_by_proxy \/ proxies = "empty" \/ outcome = "fail"
    THEN [raised |-> TRUE, e |-> "extract_feed processing failed", value |-> ExtractResult]
    ELSE [raised |-> FALSE, e |-> "", value |-> ScrapedResult(url, main_image)]

\* PipelineManager._scrape_article: the except branch reads extracted_data.ur,
\* an attribute ExtractResult does not have, so the AttributeError of that
\* read is what leaves the step, whatever extract_feed raised
ScrapeArticle(extracted_data, feed) ==
    IF feed.raised
    THEN [raised |-> TRUE, e |-> "'ExtractResult' object has no attribute 'ur'",
          value |-> extracted_data]
    ELSE [raised |-> FALSE, e |-> "", value |-> feed.value]

\* the stage process_article runs after `stage` has completed (lines 116-156);
\* "return" is the merge and return of lines 158-192
StageAfterSwapped(stage, extracted_data) ==
    CASE stage = "scraping"          -> "language_setting"
      [] stage = "language_setting"  -> "translation"
      [] stage = "translation"       -> "geotagging"
      [] stage = "geotagging"        -> "entity_extraction"
      [] stage = "entity_extraction" -> "image_search"
      [] stage = "image_search"      ->
            IF Len(extracted_data.images) > 0 THEN "image_download" ELSE "return"
      [] OTHER                       -> "return"

StageAfter(stage, extracted_data) ==
    CASE stage = "scraping"          -> "language_setting"
      [] stage = "language_setting"  -> "translation"
      [] stage = "translation"       -> "entity_extraction"
      [] stage = "entity_extraction" -> "geotagging"
      [] stage = "geotagging"        -> "image_search"
      [] stage = "image_search"      ->
            IF Len(extracted_data.images) > 0 THEN "image_download" ELSE "return"
      [] OTHER                       -> "return"

\* process_article, lines 158-192: merge into article_data and return
CompletedResult(article_data, processing_steps, extracted_data) ==
    [article_id |-> article_data.id,
     status |-> "completed",
     processing_steps |-> processing_steps,
     enriched_data |-> [id |-> article_data.id,
                        flashpoint_id |-> article_data.flashpoint_id,
                        language |-> extracted_data.language,
                        images |-> extracted_data.images,
                        entities |-> extracted_data.entities,
                        geo_entities |-> extracted_data.geo_entities],
     errors |-> <<>>]

FailureResultKeepsData(article_data, processing_steps, e) ==
    [article_id |-> article_data.id,
     status |-> "failed",
     processing_steps |-> processing_steps,
     enriched_data |-> [id |-> article_data.id,
                        flashpoint_id |-> article_data.flashpoint_id,
                        language |-> "", images |-> <<>>,
                        entities |-> "None", geo_entities |-> <<>>],
     errors |-> <<>>]

FailureResultNoSteps(article_data, processing_steps, e) ==
    [article_id |-> article_data.id,
     status |-> "failed",
     processing_steps |-> <<>>,
     enriched_data |-> None,
     errors |-> << [article_id |-> article_data.id, message |-> e] >>]

\* process_article, lines 194-208: the except branch
FailureResult(article_data, processing_steps, e) ==
    [article_id |-> article_data.id,
     status |-> "failed",
     processing_steps |-> processing_steps,
     enriched_data |-> None,
     errors |-> << [article_id |-> article_data.id, message |-> e] >>]

NotCreated ==
    [pc |-> "uncreated", processing_steps |-> <<>>, extracted_data |-> None,
     result |-> None, fault |-> "none", raised |-> ""]

\* asyncio.create_task(self.process_article(article_data, date))
Created == [NotCreated EXCEPT !.pc = "scraping"]

\* the task after `stage` completed with working record extracted_data;
\* fault names the stage when the stage caught an exception of its own
StageDone(t, article_data, stage, extracted_data, fault) ==
    LET steps == Append(t.processing_steps, stage)
        nxt == StageAfter(stage, extracted_data)
        flt == IF fault = "none" THEN t.fault ELSE fault
    IN  IF nxt = "return"
        THEN [pc |-> "done", processing_steps |-> steps, extracted_data |-> None,
              result |-> CompletedResult(article_data, steps, extracted_data),
              fault |-> flt, raised |-> ""]
        ELSE [pc |-> nxt, processing_steps |-> steps,
              extracted_data |-> extracted_data, result |-> None,
              fault |-> flt, raised |-> ""]

\* the task after an exception e left `stage`
StageRaised(t, article_data, stage, e) ==
    [pc |-> "done", processing_steps |-> t.processing_steps, extracted_data |-> None,
     result |-> FailureResult(article_data, t.processing_steps, e),
     fault |-> stage, raised |-> e]

\* what language detection over the sampled sentences and the title ends in
DetectedLanguages == {"en", "fr", "error"}

\* _set_extracted_language whose except branch marks the language undetermined
SetExtractedLanguageUndetermined(extracted_data, detected) ==
    [extracted_data EXCEPT !.language = IF detected = "error" THEN "und" ELSE detected]

\* PipelineManager._set_extracted_language: any exception leaves language ""
SetExtractedLanguage(extracted_data, detected) ==
    [extracted_data EXCEPT !.language = IF detected = "error" THEN "" ELSE detected]

\* PipelineManager._translate_title: [raised, e, value, cache]; an English
\* title is kept, any other language fetches the proxy cache first, outside
\* any try, and then translates (translate returns a string or None)
TranslateTitle(extracted_data, cache, outcome) ==
    IF extracted_data.language = "en"
    THEN [raised |-> FALSE, e |-> "", value |-> extracted_data, cache |-> cache]
    ELSE LET g == GetProxyCache(cache, FALSE, outcome)
         IN  [raised |-> g.raised,
              e |-> IF g.raised THEN "proxy retrieval failed" ELSE "",
              value |-> extracted_data, cache |-> g.cache]

\* PipelineManager._extract_entities: EntityTagger.extract_entities catches
\* every exception and always returns an EntityModel
ExtractEntities(extracted_data) ==
    [extracted_data EXCEPT !.entities = "EntityModel"]

\* Geotagger.extract_geographic_entities(title, content, locations): a list of
\* countries (its own exceptions end in the empty list, a value of the same
\* kind, left out to keep the state space small)
GeotaggerReturns == {"countries"}

\* what the call of _geotag_article can end in: the class of
\* src/processing/geotagger.py declares extract_geographic_entities(text,
\* language), against which the three-argument call raises TypeError
GeotagCallOutcomes == GeotaggerReturns \cup {"raise"}

\* PipelineManager._geotag_article: no try around the call
GeotagArticle(extracted_data, outcome) ==
    IF outcome = "raise"
    THEN [raised |-> TRUE, e |-> "TypeError", value |-> extracted_data]
    ELSE [raised |-> FALSE, e |-> "",
          value |-> [extracted_data EXCEPT
                        !.geo_entities = IF outcome = "countries" THEN <<"BR">> ELSE <<>>]]

\* what ImageFinder's searches over the locales collect
ImageSearchReturns == {"found", "nothing"}

NonEmpty(images) == SelectSeq(images, LAMBDA u : u # "")

\* PipelineManager._find_images: [value, cache, caught]; the whole body is in
\* a try whose except empties images
FindImages(extracted_data, cache, outcome, found) ==
    LET g == GetProxyCache(cache, FALSE, outcome)
    IN  IF g.raised
        THEN [value |-> [extracted_data EXCEPT !.images = <<>>],
              cache |-> g.cache, caught |-> TRUE]
        ELSE [value |-> IF found = "found"
                        THEN [extracted_data EXCEPT
                                !.images = NonEmpty(Append(@, "candidate"))]
                        ELSE extracted_data,
              cache |-> g.cache, caught |-> FALSE]

\* what ImageDownloader.download_images ends in
DownloadOutcomes == {"stored", "dropped", "raise"}

\* served URL of every candidate that was stored; a blank URL is never stored
Served(images) == [k \in 1..Len(NonEmpty(images)) |-> "served"]

\* PipelineManager._download_images: an exception empties images
DownloadImages(extracted_data, outcome) ==
    [extracted_data EXCEPT
        !.images = IF outcome = "stored" THEN Served(@) ELSE <<>>]

(***************************************************************************)
(* Batch executor: PipelineManager.process_batch.                          *)
(***************************************************************************)
Min(a, b) == IF a < b THEN a ELSE b

\* the sizing heuristics that follow the return of _calculate_optimal_batch_size
\* (lines 322-342)
CalculateOptimalBatchSizeHeuristic(total_articles) ==
    LET base_batch_size == MaxWorkers * 2
    IN  IF total_articles <= 10 THEN Min(total_articles, 5)
        ELSE IF total_articles <= 50 THEN Min(base_batch_size, total_articles)
        ELSE IF total_articles <= 200 THEN Min(base_batch_size * 2, total_articles)
        ELSE Min(base_batch_size * 3, 100)

\* PipelineManager._calculate_optimal_batch_size: returns max_workers at once
CalculateOptimalBatchSize(total_articles) == MaxWorkers

\* one sub-batch holding the whole list
CreateSubBatchesUnsplit(n, batch_size) ==
    IF n = 0 THEN <<>> ELSE << [j \in 1..n |-> j] >>

\* a split that always yields a sub-batch, an empty one for an empty list
CreateSubBatchesAtLeastOne(n, batch_size) ==
    IF n = 0 THEN << <<>> >>
    ELSE [k \in 1..((n + batch_size - 1) \div batch_size) |->
            [j \in 1..Min(batch_size, n - (k - 1) * batch_size) |->
                (k - 1) * batch_size + j]]

\* PipelineManager._create_sub_batches over a list of n articles: the slices
\* [i : i + batch_size] for i in range(0, n, batch_size), as article positions
CreateSubBatches(n, batch_size) ==
    [k \in 1..((n + batch_size - 1) \div batch_size) |->
        [j \in 1..Min(batch_size, n - (k - 1) * batch_size) |->
            (k - 1) * batch_size + j]]

NoResults == [successful |-> 0, failed |-> 0, results |-> <<>>]

\* the loop of _process_sub_batch over task_results (lines 398-422);
\* process_article catches every Exception, so each entry is a result dict
RECURSIVE GatherLoop(_, _, _)
GatherLoop(task_results, i, acc) ==
    IF i > Len(task_results) THEN acc
    ELSE LET result == task_results[i]
         IN  GatherLoop(task_results, i + 1,
                IF result.status = "completed"
                THEN [acc EXCEPT !.results = Append(@, result), !.successful = @ + 1]
                ELSE [acc EXCEPT !.results = Append(@, result), !.failed = @ + 1])

\* a gather that lets the first failure through: the except branch (lines
\* 424-442) then marks every task from there on as failed
RECURSIVE GatherLoopAborting(_, _, _, _)
GatherLoopAborting(task_results, i, acc, aborted) ==
    IF i > Len(task_results) THEN acc
    ELSE LET result == task_results[i]
             stop == aborted \/ result.status # "completed"
         IN  GatherLoopAborting(task_results, i + 1,
                IF stop
                THEN [acc EXCEPT
                        !.results = Append(@, [article_id |-> result.article_id,
                                               status |-> "failed",
                                               processing_steps |-> <<>>,
                                               enriched_data |-> None,
                                               errors |-> << [article_id |-> result.article_id,
                                                             message |-> "gather"] >>]),
                        !.failed = @ + 1]
                ELSE [acc EXCEPT !.results = Append(@, result), !.successful = @ + 1],
                stop)

GatherResultsAborting(task_results) == GatherLoopAborting(task_results, 1, NoResults, FALSE)

\* results collected in the reverse of the submission order
RECURSIVE GatherLoopReversed(_, _, _)
GatherLoopReversed(task_results, i, acc) ==
    IF i > Len(task_results) THEN acc
    ELSE LET result == task_results[i]
         IN  GatherLoopReversed(task_results, i + 1,
                IF result.status = "completed"
                THEN [acc EXCEPT !.results = <<result>> \o @, !.successful = @ + 1]
                ELSE [acc EXCEPT !.results = <<result>> \o @, !.failed = @ + 1])

GatherResultsReversed(task_results) == GatherLoopReversed(task_results, 1, NoResults)

\* a failed result appended without being counted
RECURSIVE GatherLoopMiscount(_, _, _)
GatherLoopMiscount(task_results, i, acc) ==
    IF i > Len(task_results) THEN acc
    ELSE LET result == task_results[i]
         IN  GatherLoopMiscount(task_results, i + 1,
                IF result.status = "completed"
                THEN [acc EXCEPT !.results = Append(@, result), !.successful = @ + 1]
                ELSE [acc EXCEPT !.results = Append(@, result)])

GatherResultsMiscount(task_results) == GatherLoopMiscount(task_results, 1, NoResults)

\* PipelineManager._process_sub_batch after gather: {successful, failed, results}
GatherResults(task_results) == GatherLoop(task_results, 1, NoResults)

\* the dict process_batch returns (lines 283-293)
BatchReturn(b, all_results, total_successful, total_failed) ==
    [status |-> "completed",
     total_articles |-> Len(b.article_data_list),
     processed |-> Len(all_results),
     successful |-> total_successful,
     failed |-> total_failed,
     sub_batches_processed |-> Len(b.sub_batches),
     results |-> all_results]

\* the article positions of the sub-batch run r is processing
CurrentSubBatch(r) == batch[r].sub_batches[batch[r].batch_idx]

SeqRange(q) == {q[k] : k \in 1..Len(q)}

\* the tasks of run r with those of sub-batch sb created (lines 384-390)
WithTasks(r, sb) ==
    [task EXCEPT ![r] = [i \in DOMAIN task[r] |->
                            IF i \in SeqRange(sb) THEN Created ELSE task[r][i]]]

\* process_batch up to its first suspension: sizing, splitting, and the tasks
\* of the first sub-batch; an empty list returns at once
StartBatch(r) ==
    /\ batch[r].pc = "called"
    /\ LET n == Len(batch[r].article_data_list)
           size == CalculateOptimalBatchSize(n)
           sbs == CreateSubBatches(n, size)
           b == [batch[r] EXCEPT !.optimal_batch_size = size, !.sub_batches = sbs]
       IN  IF Len(sbs) = 0
           THEN /\ batch' = [batch EXCEPT ![r] =
                                [b EXCEPT !.pc = "returned",
                                          !.ret = BatchReturn(b, <<>>, 0, 0)]]
                /\ UNCHANGED task
           ELSE /\ batch' = [batch EXCEPT ![r] =
                                [b EXCEPT !.pc = "gathering", !.batch_idx = 1]]
                /\ task' = WithTasks(r, sbs[1])
    /\ UNCHANGED <<proxy_cache, out_of_order, outside_pipeline>>

\* await asyncio.gather(*tasks, return_exceptions=True) has every task done
SubBatchComplete(r) ==
    \A i \in SeqRange(CurrentSubBatch(r)) : task[r][i].pc = "done"

\* _process_sub_batch resumes after gather, process_batch aggregates (lines
\* 262-264), then sleeps before the next sub-batch or returns
GatherSubBatch(r) ==
    /\ batch[r].pc = "gathering"
    /\ SubBatchComplete(r)
    /\ LET b == batch[r]
           sb == CurrentSubBatch(r)
           task_results == [j \in 1..Len(sb) |-> task[r][sb[j]].result]
           batch_results == GatherResults(task_results)
           all_results == b.all_results \o batch_results.results
           total_successful == b.total_successful + batch_results.successful
           total_failed == b.total_failed + batch_results.failed
           c == [b EXCEPT !.all_results = all_results,
                          !.total_successful = total_successful,
                          !.total_failed = total_failed]
       IN  batch' = [batch EXCEPT ![r] =
                IF b.batch_idx < Len(b.sub_batches)
                THEN [c EXCEPT !.pc = "sleeping"]
                ELSE [c EXCEPT !.pc = "returned",
                               !.ret = BatchReturn(b, all_results, total_successful,
                                                   total_failed)]]
    /\ UNCHANGED <<proxy_cache, task, out_of_order, outside_pipeline>>

\* asyncio.sleep(0.1) is over: the next sub-batch's tasks are created
NextSubBatch(r) ==
    /\ batch[r].pc = "sleeping"
    /\ batch' = [batch EXCEPT ![r].pc = "gathering", ![r].batch_idx = @ + 1]
    /\ task' = WithTasks(r, batch[r].sub_batches[batch[r].batch_idx + 1])
    /\ UNCHANGED <<proxy_cache, out_of_order, outside_pipeline>>

(***************************************************************************)
(* The stages of process_article as steps of the task of article i, run r. *)
(***************************************************************************)
Article(r, i) == batch[r].article_data_list[i]

\* some task created before task i in run r has not returned yet
EarlierRunning(r, i) ==
    \E j \in 1..(i - 1) : task[r][j].pc \notin {"uncreated", "done"}

SetTask(r, i, t, cache) ==
    /\ task' = [task EXCEPT ![r][i] = t]
    /\ proxy_cache' = cache
    /\ out_of_order' = [out_of_order EXCEPT ![r] =
                            @ \/ (t.pc = "done" /\ EarlierRunning(r, i))]
    /\ UNCHANGED <<batch, outside_pipeline>>

\* lines 95-119: the working record is created, then replaced by the scrape
ScrapeStage(r, i) ==
    /\ task[r][i].pc = "scraping"
    /\ \E outcome \in ProxyFetchOutcomes, sc \in ScrapeOutcomes, img \in MainImages :
         LET t == task[r][i]
             extracted_data == NewExtractedData(Article(r, i))
             g == GetProxyCache(proxy_cache, TRUE, outcome)
             feed == ExtractFeed(extracted_data.url, g.proxies, g.raised, sc, img)
             s == ScrapeArticle(extracted_data, feed)
         IN  SetTask(r, i,
                     IF s.raised
                     THEN StageRaised(t, Article(r, i), "scraping", s.e)
                     ELSE StageDone(t, Article(r, i), "scraping", s.value, "none"),
                     g.cache)

\* lines 121-124
LanguageStage(r, i) ==
    /\ task[r][i].pc = "language_setting"
    /\ \E detected \in DetectedLanguages :
         LET t == task[r][i]
         IN  SetTask(r, i,
                     StageDone(t, Article(r, i), "language_setting",
                               SetExtractedLanguage(t.extracted_data, detected),
                               IF detected = "error" THEN "language_setting" ELSE "none"),
                     proxy_cache)

\* lines 126-131
TranslationStage(r, i) ==
    /\ task[r][i].pc = "translation"
    /\ \E outcome \in ProxyFetchOutcomes :
         LET t == task[r][i]
             s == TranslateTitle(t.extracted_data, proxy_cache, outcome)
         IN  SetTask(r, i,
                     IF s.raised
                     THEN StageRaised(t, Article(r, i), "translation", s.e)
                     ELSE StageDone(t, Article(r, i), "translation", s.value, "none"),
                     s.cache)

\* lines 133-136
EntityStage(r, i) ==
    /\ task[r][i].pc = "entity_extraction"
    /\ LET t == task[r][i]
       IN  SetTask(r, i,
                   StageDone(t, Article(r, i), "entity_extraction",
                             ExtractEntities(t.extracted_data), "none"),
                   proxy_cache)

\* lines 138-141
GeotagStage(r, i) ==
    /\ task[r][i].pc = "geotagging"
    /\ \E outcome \in GeotagCallOutcomes :
         LET t == task[r][i]
             s == GeotagArticle(t.extracted_data, outcome)
         IN  SetTask(r, i,
                     IF s.raised
                     THEN StageRaised(t, Article(r, i), "geotagging", s.e)
                     ELSE StageDone(t, Article(r, i), "geotagging", s.value, "none"),
                     proxy_cache)

\* lines 143-146 (and the return of lines 158-192 when no image is at hand)
ImageSearchStage(r, i) ==
    /\ task[r][i].pc = "image_search"
    /\ \E outcome \in ProxyFetchOutcomes, found \in ImageSearchReturns :
         LET t == task[r][i]
             s == FindImages(t.extracted_data, proxy_cache, outcome, found)
         IN  SetTask(r, i,
                     StageDone(t, Article(r, i), "image_search", s.value,
                               IF s.caught THEN "image_search" ELSE "none"),
                     s.cache)

\* lines 148-156 and the return of lines 158-192
ImageDownloadStage(r, i) ==
    /\ task[r][i].pc = "image_download"
    /\ \E outcome \in DownloadOutcomes :
         LET t == task[r][i]
         IN  SetTask(r, i,
                     StageDone(t, Article(r, i), "image_download",
                               DownloadImages(t.extracted_data, outcome),
                               IF outcome = "raise" THEN "image_download" ELSE "none"),
                     proxy_cache)

\* the background refresher loop of ProxyService.start_proxy_refresher
BackgroundRefresh ==
    /\ \E outcome \in ProxyFetchOutcomes :
         proxy_cache' = RefreshedCache(proxy_cache, outcome)
    /\ UNCHANGED <<batch, task, out_of_order, outside_pipeline>>

(***************************************************************************)
(* Specifications.                                                         *)
(***************************************************************************)
NotCalled ==
    [pc |-> "absent", article_data_list |-> <<>>, optimal_batch_size |-> 0,
     sub_batches |-> <<>>, batch_idx |-> 0, all_results |-> <<>>,
     total_successful |-> 0, total_failed |-> 0, ret |-> None]

Called(article_data_list) ==
    [NotCalled EXCEPT !.pc = "called", !.article_data_list = article_data_list]

InitWith(lists) ==
    /\ proxy_cache = "empty"
    /\ batch = [r \in Runs |-> IF Len(lists[r]) = 0 THEN NotCalled ELSE Called(lists[r])]
    /\ task = [r \in Runs |-> [i \in 1..Len(lists[r]) |-> NotCreated]]
    /\ out_of_order = [r \in Runs |-> FALSE]
    /\ OutsideAtRest

\* one process_batch call over NumArticles articles
Init == InitWith(<<FeedList(1, NumArticles), <<>> >>)

\* /feed/process requested once, or requested again while the first request's
\* process_batch is still to run: two calls in flight at once
InitOverlap ==
    \/ InitWith(<<FeedList(1, NumArticles), <<>> >>)
    \/ InitWith(<<FeedList(1, NumArticles - 1), FeedList(NumArticles, NumArticles)>>)

\* process_batch called with an empty list next to a call with articles
InitEmptyBatch ==
    /\ proxy_cache = "empty"
    /\ batch = [r \in Runs |-> IF r = 1 THEN Called(FeedList(1, NumArticles))
                               ELSE Called(<<>>)]
    /\ task = [r \in Runs |-> IF r = 1 THEN [i \in 1..NumArticles |-> NotCreated]
                              ELSE <<>>]
    /\ out_of_order = [r \in Runs |-> FALSE]
    /\ OutsideAtRest

Next ==
    \/ \E r \in Runs : StartBatch(r)
    \/ \E r \in Runs : GatherSubBatch(r)
    \/ \E r \in Runs : NextSubBatch(r)
    \/ \E r \in Runs : \E i \in DOMAIN task[r] : ScrapeStage(r, i)
    \/ \E r \in Runs : \E i \in DOMAIN task[r] : LanguageStage(r, i)
    \/ \E r \in Runs : \E i \in DOMAIN task[r] : TranslationStage(r, i)
    \/ \E r \in Runs : \E i \in DOMAIN task[r] : EntityStage(r, i)
    \/ \E r \in Runs : \E i \in DOMAIN task[r] : GeotagStage(r, i)
    \/ \E r \in Runs : \E i \in DOMAIN task[r] : ImageSearchStage(r, i)
    \/ \E r \in Runs : \E i \in DOMAIN task[r] : ImageDownloadStage(r, i)
    \/ BackgroundRefresh

Spec == Init /\ [][Next]_vars

SpecOverlap == InitOverlap /\ [][Next]_vars

(***************************************************************************)
(* Feed processor: POST /feed/process and process_all_feed_entries.        *)
(* process_batch is taken here as one step with the result of every        *)
(* article pipeline drawn from ProcessArticleOutcomes.                     *)
(***************************************************************************)
\* the dates requests name; "today" is the date FeedProcessor starts with
Dates == {"d1", "d2"}

\* the rows of table feed_entries_<date>
Table(date) ==
    IF date = "d1" THEN FeedList(1, NumArticles)
    ELSE IF date = "d2" THEN FeedList(NumArticles + 1, NumArticles + 1)
    ELSE <<>>

Triggers == {"masxai", "none"}

\* db_connection.fetch_feed_entries: the rows, or DatabaseError
LoadOutcomes == {"rows", "db_error"}

\* how the pipeline of one article ends
ProcessArticleOutcomes == {"completed", "failed"}

ArticleResult(article_data, outcome) ==
    IF outcome = "completed"
    THEN CompletedResult(article_data, <<"scraping">>, ScrapedResult(article_data.url, ""))
    ELSE FailureResult(article_data, <<>>, "failed")

\* the dict of process_batch's except branch (lines 295-306)
BatchFailure(b, all_results, total_successful, total_failed) ==
    [status |-> "failed",
     total_articles |-> Len(b.article_data_list),
     processed |-> Len(all_results),
     successful |-> total_successful,
     failed |-> total_failed,
     error |-> "critical",
     results |-> all_results]

\* the loop of process_batch over the sub-batches from the k-th on, an
\* exception leaving the body at sub-batch critical_at (0: none)
RECURSIVE SubBatchLoop(_, _, _, _, _)
SubBatchLoop(b, outcomes, critical_at, k, acc) ==
    IF k > Len(b.sub_batches)
    THEN BatchReturn(b, acc.results, acc.successful, acc.failed)
    ELSE IF k = critical_at
    THEN BatchFailure(b, acc.results, acc.successful, acc.failed)
    ELSE LET sb == b.sub_batches[k]
             batch_results ==
                 GatherResults([j \in 1..Len(sb) |->
                                   ArticleResult(b.article_data_list[sb[j]],
                                                 outcomes[sb[j]])])
         IN  SubBatchLoop(b, outcomes, critical_at, k + 1,
                          [results |-> acc.results \o batch_results.results,
                           successful |-> acc.successful + batch_results.successful,
                           failed |-> acc.failed + batch_results.failed])

\* PipelineManager.process_batch from call to return
ProcessBatch(article_data_list, outcomes, critical_at) ==
    LET n == Len(article_data_list)
        b == [article_data_list |-> article_data_list,
              sub_batches |-> CreateSubBatches(n, CalculateOptimalBatchSize(n))]
    IN  SubBatchLoop(b, outcomes, critical_at, 1, NoResults)

\* db_connection.update_processed_article: the update goes through, or the
\* call raises; Upsert adds the False of an update that matched no row
UpsertOutcomes == {"saved", "raise"}

\* the table holds a row with this id and flashpoint_id
RowExists(date, article_data) ==
    \E k \in 1..Len(Table(date)) :
        /\ Table(date)[k].id = article_data.id
        /\ Table(date)[k].flashpoint_id = article_data.flashpoint_id

\* update ... eq("id", id).eq("flashpoint_id", flashpoint_id): nothing is
\* updated when no row matches
Upsert(date, enriched_data, outcome) ==
    IF outcome = "saved" /\ RowExists(date, enriched_data) THEN "saved"
    ELSE IF outcome = "raise" THEN "raise"
    ELSE "not_saved"

NoneWritten == [successful |-> 0, failed |-> 0, updates |-> <<>>]

\* a write loop that gives up at the first update that does not succeed
RECURSIVE WriteLoopGivingUp(_, _, _, _, _, _)
WriteLoopGivingUp(results, upserts, date, i, acc, gave_up) ==
    IF i > Len(results) THEN acc
    ELSE LET result == results[i]
             u == Upsert(date, result.enriched_data, upserts[i])
         IN  IF gave_up \/ result.status # "completed"
             THEN WriteLoopGivingUp(results, upserts, date, i + 1,
                                    [acc EXCEPT !.failed = @ + 1], gave_up)
             ELSE WriteLoopGivingUp(results, upserts, date, i + 1,
                    [successful |-> acc.successful + (IF u = "saved" THEN 1 ELSE 0),
                     failed |-> acc.failed + (IF u = "saved" THEN 0 ELSE 1),
                     updates |-> Append(acc.updates,
                                        [table |-> date, id |-> result.enriched_data.id,
                                         flashpoint_id |-> result.enriched_data.flashpoint_id,
                                         position |-> i, outcome |-> u])],
                    u # "saved")

\* the loop of _process_feed_entries_batch over the results (lines 387-410)
RECURSIVE WriteLoop(_, _, _, _, _)
WriteLoop(results, upserts, date, i, acc) ==
    IF i > Len(results) THEN acc
    ELSE LET result == results[i]
             u == Upsert(date, result.enriched_data, upserts[i])
         IN  IF result.status # "completed"
             THEN WriteLoop(results, upserts, date, i + 1, [acc EXCEPT !.failed = @ + 1])
             ELSE WriteLoop(results, upserts, date, i + 1,
                    [successful |-> acc.successful + (IF u = "saved" THEN 1 ELSE 0),
                     failed |-> acc.failed + (IF u = "saved" THEN 0 ELSE 1),
                     updates |-> Append(acc.updates,
                                        [table |-> date, id |-> result.enriched_data.id,
                                         flashpoint_id |-> result.enriched_data.flashpoint_id,
                                         position |-> i, outcome |-> u])])

\* a failed batch counted by the totals process_batch reported
SaveResultsAsReported(data_results, article_data_list, upserts, date) ==
    IF data_results.status = "completed"
    THEN WriteLoop(data_results.results, upserts, date, 1, NoneWritten)
    ELSE [NoneWritten EXCEPT !.successful = data_results.successful,
                             !.failed = data_results.failed]

SaveResultsGivingUp(data_results, article_data_list, upserts, date) ==
    IF data_results.status = "completed"
    THEN WriteLoopGivingUp(data_results.results, upserts, date, 1, NoneWritten, FALSE)
    ELSE [NoneWritten EXCEPT !.failed = Len(article_data_list)]

\* _process_feed_entries_batch after process_batch returned (lines 383-416)
SaveResults(data_results, article_data_list, upserts, date) ==
    IF data_results.status = "completed"
    THEN WriteLoop(data_results.results, upserts, date, 1, NoneWritten)
    ELSE [NoneWritten EXCEPT !.failed = Len(article_data_list)]

\* the rows the accepted updates touched
RowsOf(updates) ==
    {[table |-> updates[k].table, id |-> updates[k].id,
      flashpoint_id |-> updates[k].flashpoint_id] :
        k \in {j \in 1..Len(updates) : updates[j].outcome = "saved"}}

\* the dict of the except branches of process_all_feed_entries
ErrorReturn(date, error) == [status |-> "error", date |-> date, error |-> error]

\* a response that reports the entries of the table, as a handler that had
\* waited for the processing would
StartedResponseAfterWaiting(date) ==
    [status |-> "started", date |-> date, total_entries |-> Len(Table(date)),
     successful |-> 0, failed |-> 0]

\* FeedProcessResponse of the fire-and-forget branch
StartedResponse(date) ==
    [status |-> "started", date |-> date, total_entries |-> 0,
     successful |-> 0, failed |-> 0]


\* process_all_feed_entries from its first line to its first suspension
\* (lines 125-148): f is the request's record, date is FeedProcessor.date
EnterProcessAll(r, f, date, load) ==
    IF date \notin all_feed_entries /\ load = "db_error"
    THEN /\ feed_pc' = [feed_pc EXCEPT ![r] = "returned"]
         /\ feed_run' = [feed_run EXCEPT ![r] =
                            [f EXCEPT !.ret = ErrorReturn(date, "database"),
                                      !.response = IF f.trigger = "masxai" THEN f.response
                                                   ELSE ErrorReturn(date, "database")]]
         /\ UNCHANGED <<all_feed_entries, refresher_task, refreshers>>
    ELSE /\ feed_pc' = [feed_pc EXCEPT ![r] = "get_proxy_cache"]
         /\ all_feed_entries' = all_feed_entries \cup {date}
         /\ feed_run' = [feed_run EXCEPT ![r] =
                            [f EXCEPT !.loaded = date, !.entries = Table(date)]]
         \* start_proxy_refresher: a new task, whatever _refresher_task held
         /\ refresher_task' = r
         /\ refreshers' = refreshers \cup {r}

\* POST /feed/process (server.py lines 362-413)
Request(r) ==
    /\ feed_pc[r] = "idle"
    /\ \E date \in Dates, trigger \in Triggers, load \in LoadOutcomes :
         LET f == [FeedIdle EXCEPT !.trigger = trigger, !.requested = date]
         IN  /\ feed_date' = date
             /\ IF trigger = "masxai"
                THEN /\ feed_pc' = [feed_pc EXCEPT ![r] = "scheduled"]
                     /\ feed_run' = [feed_run EXCEPT ![r] =
                                        [f EXCEPT !.response = StartedResponse(date)]]
                     /\ UNCHANGED <<all_feed_entries, refresher_task, refreshers>>
                ELSE EnterProcessAll(r, f, date, load)
    /\ UNCHANGED <<beside_feed, proxy_cache, batch, task, out_of_order, db, processing_stats>>

\* the background task added by the masxai branch starts to run
BackgroundStart(r) ==
    /\ feed_pc[r] = "scheduled"
    /\ \E load \in LoadOutcomes : EnterProcessAll(r, feed_run[r], feed_date, load)
    /\ UNCHANGED <<beside_feed, proxy_cache, batch, task, out_of_order, feed_date, db, processing_stats>>

\* proxies = await proxy_service.get_proxy_cache() (line 149)
WarmProxies(r) ==
    /\ feed_pc[r] = "get_proxy_cache"
    /\ \E outcome \in ProxyFetchOutcomes :
         LET g == GetProxyCache(proxy_cache, FALSE, outcome)
             e == ErrorReturn(feed_date, "unexpected")
         IN  /\ proxy_cache' = g.cache
             /\ feed_pc' = [feed_pc EXCEPT ![r] =
                              IF g.raised THEN "returned" ELSE "process_batch"]
             /\ feed_run' = [feed_run EXCEPT ![r] =
                    IF g.raised
                    THEN [@ EXCEPT !.ret = e,
                                   !.response = IF feed_run[r].trigger = "masxai"
                                                THEN feed_run[r].response ELSE e]
                    ELSE @]
    /\ UNCHANGED <<beside_feed, batch, task, out_of_order, feed_date,
                   all_feed_entries, db, refresher_task, refreshers, processing_stats>>

\* data_results = await pipeline_manager.process_batch(article_data_list,
\* self.date) (lines 379-381)
CallProcessBatch(r) ==
    /\ feed_pc[r] = "process_batch"
    /\ feed_pc' = [feed_pc EXCEPT ![r] = "save_results"]
    /\ UNCHANGED <<beside_feed, proxy_cache, batch, task, out_of_order, feed_date, all_feed_entries,
                   db, refresher_task, refreshers, processing_stats>>
    /\ LET article_data_list == feed_run[r].entries
           n == Len(article_data_list)
           k == Len(CreateSubBatches(n, CalculateOptimalBatchSize(n)))
       IN  \E outcomes \in [1..n -> ProcessArticleOutcomes], critical_at \in 0..k :
             feed_run' = [feed_run EXCEPT ![r] =
                [@ EXCEPT !.batch_date = feed_date,
                          !.data_results =
                              ProcessBatch(article_data_list, outcomes, critical_at)]]

\* the rest of _process_feed_entries_batch and stop_proxy_refresher up to
\* its await of the cancelled task (lines 383-440, 156)
SaveAndStop(r) ==
    /\ feed_pc[r] = "save_results"
    /\ feed_pc' = [feed_pc EXCEPT ![r] = "stopping"]
    \* stop_proxy_refresher cancels the task _refresher_task refers to
    /\ refreshers' = refreshers \ {refresher_task}
    /\ UNCHANGED <<beside_feed, proxy_cache, batch, task, out_of_order, feed_date, all_feed_entries,
                   refresher_task, processing_stats>>
    /\ \E upserts \in [1..Len(feed_run[r].entries) -> UpsertOutcomes] :
         LET results == SaveResults(feed_run[r].data_results, feed_run[r].entries,
                                    upserts, feed_date)
         IN  /\ feed_run' = [feed_run EXCEPT ![r] = [@ EXCEPT !.results = results]]
             /\ db' = db \cup RowsOf(results.updates)

\* process_all_feed_entries after stop_proxy_refresher (lines 158-173)
Finish(r) ==
    /\ feed_pc[r] = "stopping"
    /\ feed_pc' = [feed_pc EXCEPT ![r] = "returned"]
    /\ processing_stats' = processing_stats + Len(feed_run[r].entries)
    /\ LET ret == [status |-> "completed", date |-> feed_date,
                   total_entries |-> Len(feed_run[r].entries),
                   successful |-> feed_run[r].results.successful,
                   failed |-> feed_run[r].results.failed]
       IN  feed_run' = [feed_run EXCEPT ![r] =
              \* the coroutine's locals end with it
              [FeedIdle EXCEPT !.ret = ret,
                               !.trigger = feed_run[r].trigger,
                               !.requested = feed_run[r].requested,
                               !.loaded = feed_run[r].loaded,
                               !.response = IF feed_run[r].trigger = "masxai"
                                            THEN feed_run[r].response ELSE ret]]
    /\ UNCHANGED <<beside_feed, proxy_cache, batch, task, out_of_order, feed_date, all_feed_entries,
                   db, refresher_task, refreshers>>

\* one round of the _loop of a refresher task that was not cancelled
RefresherLoop(t) ==
    /\ t \in refreshers
    /\ \E outcome \in ProxyFetchOutcomes :
         /\ proxy_cache' = RefreshedCache(proxy_cache, outcome)
         /\ proxy_cache' # proxy_cache
    /\ UNCHANGED <<batch, task, out_of_order, outside_pipeline>>

\* no process_batch call tracked step by step
PipelineAtRest ==
    /\ proxy_cache = "empty"
    /\ batch = [r \in Runs |-> NotCalled]
    /\ task = [r \in Runs |-> <<>>]
    /\ out_of_order = [r \in Runs |-> FALSE]

InitFeed == PipelineAtRest /\ OutsideAtRest

NextFeed ==
    \/ \E r \in Runs : Request(r)
    \/ \E r \in Runs : BackgroundStart(r)
    \/ \E r \in Runs : WarmProxies(r)
    \/ \E r \in Runs : CallProcessBatch(r)
    \/ \E r \in Runs : SaveAndStop(r)
    \/ \E r \in Runs : Finish(r)
    \/ \E t \in Runs : RefresherLoop(t)

\* requests to POST /feed/process, overlapping or not
SpecFeed == InitFeed /\ [][NextFeed]_vars

\* the steps of request r's process_all_feed_entries coroutine
RunStep(r) ==
    \/ BackgroundStart(r)
    \/ WarmProxies(r)
    \/ CallProcessBatch(r)
    \/ SaveAndStop(r)
    \/ Finish(r)

\* the event loop runs every ready task: no coroutine waits forever
FairFeed == \A r \in Runs : WF_vars(RunStep(r))

\* the state after request 2, a blocking request for d2, found no table
\* (Request(2) with load = "db_error"); request 1 is still to come
InitFeedFair ==
    /\ PipelineAtRest
    /\ feed_pc = [r \in Runs |-> IF r = 1 THEN "idle" ELSE "returned"]
    /\ feed_run = [r \in Runs |->
                      IF r = 1 THEN FeedIdle
                      ELSE [FeedIdle EXCEPT !.trigger = "none", !.requested = "d2",
                                            !.ret = ErrorReturn("d2", "database"),
                                            !.response = ErrorReturn("d2", "database")]]
    /\ feed_date = "d2"
    /\ all_feed_entries = {}
    /\ db = {}
    /\ refresher_task = 0
    /\ refreshers = {}
    /\ processing_stats = 0
    /\ BesideFeedAtRest

\* one request to POST /feed/process run to its end by the event loop
SpecFeedFair == InitFeedFair /\ [][NextFeed]_vars /\ FairFeed

(***************************************************************************)
(* Translation manager: TranslationManager.translate and its providers.    *)
(***************************************************************************)
\* the texts given to translate, as sequences of characters
Texts == {<<"a">>, <<" ", "a">>, <<"b">>}

RECURSIVE LStrip(_)
LStrip(text) ==
    IF text # <<>> /\ Head(text) = " " THEN LStrip(Tail(text)) ELSE text

RECURSIVE RStrip(_)
RStrip(text) ==
    IF text # <<>> /\ text[Len(text)] = " "
    THEN RStrip(SubSeq(text, 1, Len(text) - 1)) ELSE text

\* str.strip()
Strip(text) == RStrip(LStrip(text))

\* Circuit.allow at time t
Allow(c, t) == t >= c.open_until

\* a breaker that keeps counting across successes
SuccessKeepingCount(c) == c

\* Circuit.success
Success(c) == [fail_count |-> 0, open_until |-> 0]

\* Circuit.failure at time t
Failure(c, t) ==
    LET n == c.fail_count + 1
    IN  [fail_count |-> n,
         open_until |-> IF n >= FAIL_THRESHOLD THEN t + COOLDOWN_SEC ELSE c.open_until]

\* what the provider's library does with the text: a translation, an exception
\* (or an empty result), or a language or length the provider does not take
TryOutcomes(provider) ==
    IF provider = "freeapi" THEN {"out", "exception"}
    ELSE {"out", "exception", "unsupported"}

\* the string provider returns for text; blanks around the text do not show
\* in it
Translation(provider, text) == [by |-> provider, of |-> Strip(text)]

\* _try_provider that leaves the provider enabled when its breaker opens
TryProviderNoDisable(tm, provider, text, outcome, t) ==
    CASE outcome = "out" ->
           [tm |-> [tm EXCEPT !.circuits[provider] = Success(@)],
            res |-> Translation(provider, text), raised |-> FALSE]
      [] outcome = "unsupported" ->
           [tm |-> tm, res |-> None, raised |-> FALSE]
      [] OTHER ->
           [tm |-> [tm EXCEPT !.circuits[provider] = Failure(@, t)],
            res |-> None, raised |-> FALSE]

\* _try_provider whose pre-checks raise an error like any other
TryProviderChargingSkips(tm, provider, text, outcome, t) ==
    CASE outcome = "out" ->
           [tm |-> [tm EXCEPT !.circuits[provider] = Success(@)],
            res |-> Translation(provider, text), raised |-> FALSE]
      [] OTHER ->
           LET c == Failure(tm.circuits[provider], t)
           IN  [tm |-> [tm EXCEPT !.circuits[provider] = c,
                                  !.providers_enabled[provider] =
                                      IF Allow(c, t) THEN @ ELSE FALSE],
                res |-> None, raised |-> FALSE]

\* TranslationManager._try_provider at time t: [manager after, res, raised]
TryProvider(tm, provider, text, outcome, t) ==
    CASE outcome = "out" ->
           [tm |-> [tm EXCEPT !.circuits[provider] = Success(@)],
            res |-> Translation(provider, text), raised |-> FALSE]
      [] outcome = "unsupported" ->
           [tm |-> tm, res |-> None, raised |-> FALSE]
      [] OTHER ->
           LET c == Failure(tm.circuits[provider], t)
           IN  [tm |-> [tm EXCEPT !.circuits[provider] = c,
                                  !.providers_enabled[provider] =
                                      IF Allow(c, t) THEN @ ELSE FALSE],
                res |-> None, raised |-> FALSE]

\* _cache_get that leaves the order of the entries alone
CacheGetKeepingOrder(cache_, key) ==
    IF \E k \in 1..Len(cache_) : cache_[k].key = key
    THEN [cache |-> cache_,
          val |-> (CHOOSE e \in {cache_[k] : k \in 1..Len(cache_)} : e.key = key).value]
    ELSE [cache |-> cache_, val |-> None]

\* OrderedDict.get followed by move_to_end: [cache after, val]
CacheGet(cache_, key) ==
    IF \E k \in 1..Len(cache_) : cache_[k].key = key
    THEN LET k == CHOOSE k \in 1..Len(cache_) : cache_[k].key = key
         IN  [cache |-> SubSeq(cache_, 1, k - 1) \o SubSeq(cache_, k + 1, Len(cache_))
                            \o <<cache_[k]>>,
              val |-> cache_[k].value]
    ELSE [cache |-> cache_, val |-> None]

\* TranslationManager._cache_put with CACHE_SIZE = size
CachePutAt(cache_, key, value, size) ==
    LET others == SelectSeq(cache_, LAMBDA e : e.key # key)
        put == Append(others, [key |-> key, value |-> value])
    IN  IF Len(put) > size THEN Tail(put) ELSE put

\* TranslationManager._cache_put
CachePut(cache_, key, value) == CachePutAt(cache_, key, value, CacheSize)

\* the orders random.shuffle can give the providers of S
Orders(S) ==
    {o \in [1..Cardinality(S) -> S] : \A i, j \in 1..Cardinality(S) : o[i] = o[j] => i = j}

\* _provider_order
ProviderOrder(enabled) == Orders({p \in Providers : enabled[p]})

\* the for loop of translate from the i-th provider of order on
RECURSIVE ProviderLoop(_, _, _, _, _, _, _, _)
ProviderLoop(tm, key, text, order, outcomes, t, i, acc) ==
    IF i > Len(order)
    THEN [tm |-> tm, res |-> None, raised |-> FALSE, tried |-> acc]
    ELSE LET prov == order[i]
         IN  IF ~tm.providers_enabled[prov] \/ ~Allow(tm.circuits[prov], t)
             THEN ProviderLoop(tm, key, text, order, outcomes, t, i + 1, acc)
             ELSE LET r == TryProvider(tm, prov, text, outcomes[prov], t)
                  IN  IF ~r.raised /\ r.res # None
                      THEN [tm |-> [r.tm EXCEPT !.cache = CachePut(@, key, r.res)],
                            res |-> r.res, raised |-> FALSE,
                            tried |-> acc \cup {prov}]
                      ELSE ProviderLoop(r.tm, key, text, order, outcomes, t, i + 1,
                                        acc \cup {prov})

\* translate that goes to the providers without looking into the cache
TranslateUncached(tm, text, source, target, order, outcomes, t) ==
    ProviderLoop(tm, <<Strip(text), source, target>>, text, order, outcomes, t, 1, {})

\* translate that hands the text back when no provider translated it
TranslateEchoing(tm, text, source, target, order, outcomes, t) ==
    LET key == <<Strip(text), source, target>>
        cached == CacheGet(tm.cache, key)
        looped == ProviderLoop(tm, key, text, order, outcomes, t, 1, {})
    IN  IF cached.val # None
        THEN [tm |-> [tm EXCEPT !.cache = cached.cache], res |-> cached.val,
              raised |-> FALSE, tried |-> {}]
        ELSE IF looped.res = None
        THEN [looped EXCEPT !.res = Translation("none", text)]
        ELSE looped

\* TranslationManager.translate at time t:
\* [manager after, res, raised, providers tried]
Translate(tm, text, source, target, order, outcomes, t) ==
    LET key == <<Strip(text), source, target>>
        cached == CacheGet(tm.cache, key)
    IN  IF cached.val # None
        THEN [tm |-> [tm EXCEPT !.cache = cached.cache], res |-> cached.val,
              raised |-> FALSE, tried |-> {}]
        ELSE ProviderLoop(tm, key, text, order, outcomes, t, 1, {})

\* the value the cache holds under key, or None
Held(cache_, key) ==
    IF \E k \in 1..Len(cache_) : cache_[k].key = key
    THEN (CHOOSE e \in {cache_[k] : k \in 1..Len(cache_)} : e.key = key).value
    ELSE None

\* the streak of provider p after a call that tried the providers of tried
StreakAfter(p, n, tried, outcomes) ==
    IF p \notin tried THEN n
    ELSE IF outcomes[p] = "out" THEN 0
    ELSE IF outcomes[p] = "exception" THEN n + 1
    ELSE n

\* one call of translate(title, source=language, target="en")
\* (pipeline_manager.py lines 525-527); nothing in it suspends
TranslateCall ==
    /\ \E text \in Texts, order \in ProviderOrder(providers_enabled),
          outcomes \in [Providers -> {"out", "exception", "unsupported"}] :
         /\ \A p \in Providers : outcomes[p] \in TryOutcomes(p)
         \* what a provider would do matters only up to the first translation
         /\ \A i, j \in 1..Len(order) :
                (i < j /\ outcomes[order[i]] = "out") => outcomes[order[j]] = "out"
         /\ \A p \in Providers : ~providers_enabled[p] => outcomes[p] = "out"
         /\ LET tm == [circuits |-> circuits, providers_enabled |-> providers_enabled,
                       cache |-> translation_cache]
                r == Translate(tm, text, "fr", "en", order, outcomes, clock)
            IN  /\ circuits' = r.tm.circuits
                /\ providers_enabled' = r.tm.providers_enabled
                /\ translation_cache' = r.tm.cache
                /\ last_call' =
                       [key |-> <<Strip(text), "fr", "en">>,
                        held |-> Held(translation_cache, <<Strip(text), "fr", "en">>),
                        res |-> r.res, raised |-> r.raised, tried |-> r.tried,
                        \* the providers tried that returned a translation
                        delivered |-> {p \in r.tried : outcomes[p] = "out"},
                        \* the providers tried that a pre-check turned away
                        skipped |-> {p \in r.tried : outcomes[p] = "unsupported"},
                        \* the providers left out though their cooldown was over
                        passed_over |-> {p \in Providers \ r.tried :
                                            /\ circuits[p].open_until > 0
                                            /\ Allow(circuits[p], clock)}]
                /\ streak' = [p \in Providers |->
                                 StreakAfter(p, streak[p], r.tried, outcomes)]
                /\ tried_barred' = tried_barred \cup
                       {p \in r.tried : ~providers_enabled[p] \/ clock < circuits[p].open_until}
    /\ UNCHANGED <<clock, proxy_cache, batch, task, out_of_order, beside_translation>>

\* time passes
Tick ==
    /\ clock + ClockStep <= MaxClock
    /\ clock' = clock + ClockStep
    /\ UNCHANGED <<circuits, providers_enabled, translation_cache, last_call, streak,
                   tried_barred, proxy_cache, batch, task, out_of_order,
                   beside_translation>>

InitTranslate == PipelineAtRest /\ OutsideAtRest

NextTranslate == TranslateCall \/ Tick

\* translate calls of one process, one after the other
SpecTranslate == InitTranslate /\ [][NextTranslate]_vars

(***************************************************************************)
(* Properties.                                                             *)
(***************************************************************************)
Returned(r) == batch[r].pc = "returned"

Tasks(r) == DOMAIN task[r]

Done(r, i) == task[r][i].pc = "done"

Running(r) == {i \in Tasks(r) : task[r][i].pc \notin {"uncreated", "done"}}

Failed(r, i) == Done(r, i) /\ task[r][i].result.status = "failed"

Completed(r, i) == Done(r, i) /\ task[r][i].result.status = "completed"

PipelineSteps ==
    <<"scraping", "language_setting", "translation", "entity_extraction",
      "geotagging", "image_search", "image_download">>

Position(stage) == CHOOSE k \in 1..Len(PipelineSteps) : PipelineSteps[k] = stage

StepsBefore(stage) == SubSeq(PipelineSteps, 1, Position(stage) - 1)

\* the sub-batch the article at position i belongs to: slices of max_workers
SubBatchOf(i) == ((i - 1) \div MaxWorkers) + 1

\* C1: a process_batch call in which some article failed still returns status
\* completed, with every article of every sub-batch run to its end and each
\* reported with the result of its own pipeline.
C1_FailureIsolated ==
    \A r \in Runs :
        (Returned(r) /\ \E i \in Tasks(r) : Failed(r, i)) =>
            /\ batch[r].ret.status = "completed"
            /\ batch[r].ret.sub_batches_processed = Len(batch[r].sub_batches)
            /\ Len(batch[r].ret.results) = Len(batch[r].article_data_list)
            /\ \A i \in Tasks(r) :
                  /\ Done(r, i)
                  /\ batch[r].ret.results[i] = task[r][i].result

\* the first article failed, its sibling in the same sub-batch and the article
\* of the next sub-batch completed
C1_Witness ==
    /\ Returned(1)
    /\ Failed(1, 1)
    /\ Completed(1, MaxWorkers)
    /\ Completed(1, NumArticles)
    /\ SubBatchOf(NumArticles) > SubBatchOf(1)

\* C2: results[i] of a returned process_batch call is the result of the i-th
\* input article, whatever order the pipelines finished in.
C2_ResultsInInputOrder ==
    \A r \in Runs :
        Returned(r) =>
            /\ Len(batch[r].ret.results) = Len(batch[r].article_data_list)
            /\ \A i \in 1..Len(batch[r].article_data_list) :
                  batch[r].ret.results[i].article_id = batch[r].article_data_list[i].id

\* a call returned in which a pipeline finished before one submitted earlier
C2_Witness == Returned(1) /\ out_of_order[1]

\* C3: a process_batch call that returned status completed has processed =
\* total_articles = the number of results, and successful + failed = processed,
\* successful counting the completed results and failed the others.
C3_CountsAddUp ==
    \A r \in Runs :
        (Returned(r) /\ batch[r].ret.status = "completed") =>
            LET ret == batch[r].ret
            IN  /\ ret.processed = ret.total_articles
                /\ ret.total_articles = Len(batch[r].article_data_list)
                /\ ret.processed = Len(ret.results)
                /\ ret.successful + ret.failed = ret.processed
                /\ ret.successful =
                      Cardinality({i \in 1..Len(ret.results) :
                                      ret.results[i].status = "completed"})

\* a returned call with both a successful and a failed article
C3_Witness ==
    /\ Returned(1)
    /\ batch[1].ret.successful >= 1
    /\ batch[1].ret.failed >= 1

\* C4: no pipeline of a later sub-batch has started while a pipeline of an
\* earlier sub-batch has not finished.
C4_SubBatchesSequential ==
    \A r \in Runs : \A i, j \in Tasks(r) :
        (SubBatchOf(i) < SubBatchOf(j) /\ task[r][j].pc # "uncreated") => Done(r, i)

\* a pipeline of the second sub-batch is running, the first sub-batch is over
C4_Witness ==
    \E j \in Running(1) :
        /\ SubBatchOf(j) > 1
        /\ \A i \in Tasks(1) : SubBatchOf(i) < SubBatchOf(j) => Done(1, i)

\* C5 as stated: at any moment at most max_workers article pipelines are
\* running, over every process_batch call in flight.
C5_AtMostMaxWorkersRunning ==
    Cardinality({ri \in Runs \X (1..NumArticles) :
                    ri[2] \in Running(ri[1])}) <= MaxWorkers

\* C5: within one process_batch call at most max_workers article pipelines are
\* running at any moment.
C5_AtMostMaxWorkersPerCall ==
    \A r \in Runs : Cardinality(Running(r)) <= MaxWorkers

\* one call has max_workers pipelines running while an overlapping call runs
\* pipelines of its own
C5_Witness ==
    \E r, q \in Runs :
        /\ r # q
        /\ Cardinality(Running(r)) = MaxWorkers
        /\ Running(q) # {}

\* C6: a pipeline in a stage has recorded exactly the stages before it, in the
\* order scraping, language setting, title translation, entity extraction,
\* geotagging, image search, image download; a finished pipeline has recorded
\* a prefix of that order.
C6_StagesInFixedOrder ==
    \A r \in Runs : \A i \in Tasks(r) :
        LET t == task[r][i]
        IN  /\ i \in Running(r) => t.processing_steps = StepsBefore(t.pc)
            /\ Done(r, i) =>
                  /\ Len(t.processing_steps) <= Len(PipelineSteps)
                  /\ t.processing_steps =
                        SubSeq(PipelineSteps, 1, Len(t.processing_steps))

\* a pipeline went through all seven stages
C6_Witness ==
    \E i \in Tasks(1) : Completed(1, i) /\ task[1][i].result.processing_steps = PipelineSteps

ScrapeFailed(r) == {i \in Tasks(r) : Done(r, i) /\ task[r][i].fault = "scraping"}

\* C7: an article whose content extraction failed has a result with status
\* failed, no enriched_data and at least one error, and the returned totals
\* count it under failed and not under successful.
C7_ScrapeFailureFails ==
    \A r \in Runs :
        /\ \A i \in ScrapeFailed(r) :
              /\ task[r][i].result.status = "failed"
              /\ task[r][i].result.enriched_data = None
              /\ Len(task[r][i].result.errors) >= 1
        /\ Returned(r) =>
              /\ batch[r].ret.failed >= Cardinality(ScrapeFailed(r))
              /\ batch[r].ret.successful <=
                    Len(batch[r].article_data_list) - Cardinality(ScrapeFailed(r))
              /\ \A i \in ScrapeFailed(r) : batch[r].ret.results[i].status = "failed"

\* a returned call with one article failed in scraping and another completed
C7_Witness ==
    /\ Returned(1)
    /\ \E i \in ScrapeFailed(1) : \E j \in Tasks(1) : Completed(1, j)

SoftSteps ==
    {"translation", "entity_extraction", "geotagging", "image_search", "image_download"}

\* C8: an article in whose steps 3 to 7 an exception occurred ends completed,
\* with nothing recorded in errors.
C8_LateStepsFailSoft ==
    \A r \in Runs : \A i \in Tasks(r) :
        (Done(r, i) /\ task[r][i].fault \in SoftSteps) =>
            /\ task[r][i].result.status = "completed"
            /\ task[r][i].result.errors = <<>>

\* C9: when a step raised out of process_article the result is failed, its
\* first error carries the exception's message, and processing_steps is the
\* list of the stages before the failing one, in pipeline order.
C9_FailedResultShape ==
    \A r \in Runs : \A i \in Tasks(r) :
        (Done(r, i) /\ task[r][i].raised # "") =>
            LET t == task[r][i]
            IN  /\ t.result.status = "failed"
                /\ Len(t.result.errors) >= 1
                /\ t.result.errors[1].message = t.raised
                /\ t.result.processing_steps = StepsBefore(t.fault)

\* a pipeline that raised in geotagging, four stages recorded
C9_Witness ==
    \E i \in Tasks(1) :
        /\ Failed(1, i)
        /\ task[1][i].fault = "geotagging"
        /\ Len(task[1][i].result.processing_steps) = Position("geotagging") - 1

\* C10: the working ExtractResult of every article, at every stage after
\* scraping, has the id of the input article and its flashpoint_id as parent_id.
C10_IdentityPreserved ==
    \A r \in Runs : \A i \in Running(r) :
        task[r][i].pc # "scraping" =>
            /\ task[r][i].extracted_data.id = Article(r, i).id
            /\ task[r][i].extracted_data.parent_id = Article(r, i).flashpoint_id

(***************************************************************************)
(* Feed processor properties.                                              *)
(***************************************************************************)
\* run r holds the return value of process_batch
HasBatchResult(r) == feed_pc[r] \in {"save_results", "stopping"}

\* run r has gone through the results of process_batch
Saved(r) == feed_pc[r] = "stopping"

UpdateIssued(r, table, result) ==
    \E k \in 1..Len(feed_run[r].results.updates) :
        /\ feed_run[r].results.updates[k].table = table
        /\ feed_run[r].results.updates[k].id = result.article_id
        /\ feed_run[r].results.updates[k].flashpoint_id = result.enriched_data.flashpoint_id

\* C12: every article whose pipeline result is completed (in a batch that was
\* not failed as a whole) has its update issued against the table of the date
\* the run loaded its entries for, in the row keyed by the article's
\* (id, flashpoint_id)
C12_CompletedWrittenToRunDate ==
    \A r \in Runs :
        (Saved(r) /\ feed_run[r].data_results.status = "completed") =>
            \A i \in 1..Len(feed_run[r].data_results.results) :
                LET result == feed_run[r].data_results.results[i]
                IN  result.status = "completed" =>
                        UpdateIssued(r, feed_run[r].loaded, result)

\* the positions of the completed results of run r's batch
CompletedPositions(r) ==
    {i \in 1..Len(feed_run[r].data_results.results) :
        feed_run[r].data_results.results[i].status = "completed"}

\* the updates of run r that went through
SavedUpdates(r) ==
    {k \in 1..Len(feed_run[r].results.updates) :
        feed_run[r].results.updates[k].outcome = "saved"}

\* C13: an update that fails (returns False or raises) fails its own article
\* only: every completed article still gets its update, each update that went
\* through is a row written and a success counted, and the counts add up to
\* the number of entries
C13_FailedWriteIsolated ==
    \A r \in Runs :
        (Saved(r) /\ feed_run[r].data_results.status = "completed") =>
            LET u == feed_run[r].results.updates
            IN  /\ {u[k].position : k \in 1..Len(u)} = CompletedPositions(r)
                /\ Len(u) = Cardinality(CompletedPositions(r))
                /\ feed_run[r].results.successful = Cardinality(SavedUpdates(r))
                /\ feed_run[r].results.successful + feed_run[r].results.failed
                       = Len(feed_run[r].entries)
                /\ \A k \in SavedUpdates(r) :
                       [table |-> u[k].table, id |-> u[k].id,
                        flashpoint_id |-> u[k].flashpoint_id] \in db

C13_Witness ==
    \E r \in Runs :
        /\ Saved(r)
        /\ feed_run[r].data_results.status = "completed"
        /\ \E k1, k2 \in 1..Len(feed_run[r].results.updates) :
             /\ k1 < k2
             /\ feed_run[r].results.updates[k1].outcome = "raise"
             /\ feed_run[r].results.updates[k2].outcome = "saved"

Scheduled(r) == feed_pc[r] = "scheduled"

FeedReturned(r) == feed_pc[r] = "returned"

\* the entries the completed runs processed, summed
RECURSIVE TotalProcessed(_)
TotalProcessed(rs) ==
    IF rs = {} THEN 0
    ELSE LET r == CHOOSE x \in rs : TRUE
             n == IF FeedReturned(r) /\ feed_run[r].ret.status = "completed"
                  THEN feed_run[r].ret.total_entries ELSE 0
         IN  n + TotalProcessed(rs \ {r})

C15_AtMostOneRefresher == Cardinality(refreshers) <= 1

\* C16: once a run has returned, normally or through an error, the refresher
\* task it started is no longer alive
C16_RefresherStoppedAfterRun ==
    \A r \in Runs : FeedReturned(r) => r \notin refreshers

(***************************************************************************)
(* Translation manager properties.                                         *)
(***************************************************************************)
\* the breaker of provider p has been opened
Opened(p) == circuits[p].open_until > 0

\* C17: translate does not raise, and a call in which no provider returned a
\* translation (each one failed, was disabled or had its breaker open) and
\* the cache held nothing returns null
C17_TranslateNeverRaises ==
    /\ ~last_call.raised
    /\ (last_call.delivered = {} /\ last_call.held = None) => last_call.res = None
    /\ last_call.res # None =>
           \/ last_call.res = last_call.held
           \/ last_call.res.by \in last_call.delivered

C17_Witness ==
    /\ last_call.tried # {}
    /\ last_call.delivered = {}
    /\ last_call.res = None
    /\ \E p \in Providers : ~providers_enabled[p] /\ p \notin last_call.tried

\* C18: the breaker of a provider is open exactly when the provider has failed
\* FAIL_THRESHOLD times with no success in between; it is then open until
\* COOLDOWN_SEC after the last of these failures, and no call tries the
\* provider while it is open
C18_BreakerOpensAfterThreeFailures ==
    /\ \A p \in Providers :
         /\ circuits[p].fail_count = streak[p]
         /\ streak[p] <= FAIL_THRESHOLD
         /\ Opened(p) <=> streak[p] = FAIL_THRESHOLD
         /\ Opened(p) =>
               /\ circuits[p].open_until >= COOLDOWN_SEC
               /\ circuits[p].open_until <= clock + COOLDOWN_SEC
    /\ tried_barred = {}

C18_Witness ==
    \E p \in Providers :
        /\ streak[p] = FAIL_THRESHOLD
        /\ circuits[p].open_until - COOLDOWN_SEC < clock
        /\ clock < circuits[p].open_until
        /\ last_call.tried # {}
        /\ p \notin last_call.tried

\* C19: a provider whose breaker has opened is disabled, only such a provider
\* is disabled, and a disabled provider is left out of every later call, also
\* once its cooldown is over
C19_OpenBreakerDisablesProvider ==
    /\ \A p \in Providers : Opened(p) <=> ~providers_enabled[p]
    /\ \A p \in last_call.passed_over : ~providers_enabled[p]
    /\ \A p \in tried_barred : providers_enabled[p]

C19_Witness ==
    \E p \in last_call.passed_over :
        /\ ~providers_enabled[p]
        /\ clock >= circuits[p].open_until
        /\ last_call.tried # {}

\* C20: a call whose key is in the cache returns the value the cache held
\* and tries no provider
C20_CacheHitShortCircuits ==
    last_call.held # None =>
        /\ last_call.res = last_call.held
        /\ last_call.tried = {}
        /\ ~last_call.raised

C20_Witness ==
    /\ last_call.held # None
    /\ last_call.res = last_call.held
    /\ last_call.tried = {}
    /\ \E p \in Providers : providers_enabled[p] /\ Allow(circuits[p], clock)

(***************************************************************************)
(* Image downloader: ImageDownloader.download_images and _process_one.     *)
(***************************************************************************)
\* the candidate URLs on the ExtractResult of article a, already cleaned
Candidates(a) == [k \in 1..NumImages |-> <<"candidate", a, k>>]

\* path = f"{date}/{flashpoint_id.strip()}"
Folder(date, flashpoint_id) == <<date, flashpoint_id>>

\* _build_filename: img_{index}_{extract_id}{code of url}{ext}
BuildFilename(index, url) == <<index, url>>

\* posixpath.join(path, filename)
BucketPath(path, index, url) == [folder |-> path, name |-> BuildFilename(index, url)]

\* _serve_url
ServeUrl(stored_path) == [served |-> stored_path]

\* storage.list(path) raises, or every object of the folder is removed
ClearOutcomes == {"cleared", "raise"}

\* _clear_directory
ClearDirectory(objects, path, outcome) ==
    IF outcome = "raise" THEN objects
    ELSE {o \in objects : o.folder # path}

\* the _process_one task of a candidate, not yet past "async with sem"
Waiting == [pc |-> "waiting", stored_path |-> None]

\* the tuple _process_one returns: (url, stored_path, served_url)
ProcessOneResult(url, stored_path) ==
    [source |-> url, stored_path |-> stored_path,
     served_url |-> IF stored_path = None THEN None ELSE ServeUrl(stored_path)]

\* the _process_one tasks of call c that hold the semaphore
InFlight(c) == {i \in DOMAIN fetch[c] : fetch[c][i].pc = "in_flight"}

\* a semaphore that lets every task in
SemaphoreNeverLocked(c) == TRUE

\* asyncio.Semaphore(self.max_concurrency) of call c is not locked
SemaphoreFree(c) == Cardinality(InFlight(c)) < MaxConcurrency

\* a result list that keeps the source URL of a candidate that failed
RECURSIVE UploadedUrlsKeepingSource(_)
UploadedUrlsKeepingSource(results) ==
    IF results = <<>> THEN <<>>
    ELSE LET r == Head(results)
         IN  <<IF r.stored_path # None /\ r.served_url # None THEN r.served_url
               ELSE r.source>> \o UploadedUrlsKeepingSource(Tail(results))

\* the loop of download_images over the results (lines 126-137)
RECURSIVE UploadedUrls(_)
UploadedUrls(results) ==
    IF results = <<>> THEN <<>>
    ELSE LET r == Head(results)
         IN  (IF r.stored_path # None /\ r.served_url # None THEN <<r.served_url>>
              ELSE <<>>) \o UploadedUrls(Tail(results))

\* the articles whose images some call is downloading or has downloaded
Taken == {download[c].article : c \in Calls}

\* PipelineManager._download_images calls download_images, which runs to its
\* gather (lines 95-123); an exception on the way leaves images empty
DownloadImagesCall(c) ==
    /\ download[c].pc = "idle"
    /\ \E a \in (1..NumArticles) \ Taken, cleaned \in {"cleaned", "raise"},
          clear \in ClearOutcomes :
         LET urls == Candidates(a)
             path == Folder("d1", FeedModel(a).flashpoint_id)
         IN  IF cleaned = "raise"
             THEN /\ download' = [download EXCEPT ![c] =
                                     [pc |-> "returned", article |-> a, path |-> path,
                                      urls |-> urls, images |-> <<>>]]
                  /\ UNCHANGED <<fetch, bucket>>
             ELSE /\ download' = [download EXCEPT ![c] =
                                     [pc |-> "gathering", article |-> a, path |-> path,
                                      urls |-> urls, images |-> urls]]
                  /\ bucket' = ClearDirectory(bucket, path, clear)
                  /\ fetch' = [fetch EXCEPT ![c] = [i \in 1..Len(urls) |-> Waiting]]
    /\ UNCHANGED <<proxy_cache, batch, task, out_of_order, beside_images>>

\* "async with sem" of the i-th task: the tasks enter in the order gather
\* started them
Acquire(c, i) ==
    /\ download[c].pc = "gathering"
    /\ fetch[c][i].pc = "waiting"
    /\ \A j \in 1..(i - 1) : fetch[c][j].pc # "waiting"
    /\ SemaphoreFree(c)
    /\ fetch' = [fetch EXCEPT ![c][i].pc = "in_flight"]
    /\ UNCHANGED <<download, bucket, proxy_cache, batch, task, out_of_order, beside_images>>

\* the rest of _process_one (lines 187-235): the candidate is uploaded, or it
\* is skipped or fails
ProcessOne(c, i) ==
    /\ fetch[c][i].pc = "in_flight"
    /\ \E outcome \in {"stored", "dropped"} :
         LET bucket_path == BucketPath(download[c].path, i - 1, download[c].urls[i])
         IN  IF outcome = "stored"
             THEN /\ bucket' = bucket \cup {bucket_path}
                  /\ fetch' = [fetch EXCEPT ![c][i] =
                                  [pc |-> "done", stored_path |-> bucket_path]]
             ELSE /\ bucket' = bucket
                  /\ fetch' = [fetch EXCEPT ![c][i] = [pc |-> "done", stored_path |-> None]]
    /\ UNCHANGED <<download, proxy_cache, batch, task, out_of_order, beside_images>>

\* gather returns and download_images rewrites images (lines 123-151)
DownloadImagesReturn(c) ==
    /\ download[c].pc = "gathering"
    /\ \A i \in DOMAIN fetch[c] : fetch[c][i].pc = "done"
    /\ LET results == [i \in DOMAIN fetch[c] |->
                          ProcessOneResult(download[c].urls[i], fetch[c][i].stored_path)]
       IN  download' = [download EXCEPT ![c].pc = "returned",
                                        ![c].images = UploadedUrls(results)]
    /\ UNCHANGED <<fetch, bucket, proxy_cache, batch, task, out_of_order, beside_images>>

InitImages == PipelineAtRest /\ OutsideAtRest

NextImages ==
    \/ \E c \in Calls : DownloadImagesCall(c)
    \/ \E c \in Calls : \E i \in DOMAIN fetch[c] : Acquire(c, i)
    \/ \E c \in Calls : \E i \in DOMAIN fetch[c] : ProcessOne(c, i)
    \/ \E c \in Calls : DownloadImagesReturn(c)

\* the image download steps of two articles of one run, side by side or one
\* after the other
SpecImages == InitImages /\ [][NextImages]_vars

(***************************************************************************)
(* Image downloader properties.                                            *)
(***************************************************************************)
\* C21 as stated: at most max_concurrency image fetches are in flight at any
\* time
C21_AtMostMaxConcurrencyInFlight ==
    Cardinality({<<c, i>> \in Calls \X (1..NumImages) : i \in InFlight(c)})
        <= MaxConcurrency

\* C21, amended: at most max_concurrency fetches of one download_images call
\* are in flight at any time
C21_AtMostMaxConcurrencyPerCall ==
    \A c \in Calls : Cardinality(InFlight(c)) <= MaxConcurrency

C21_Witness ==
    \E c \in Calls :
        /\ Cardinality(InFlight(c)) = MaxConcurrency
        /\ \E i \in DOMAIN fetch[c] : fetch[c][i].pc = "waiting"

\* the candidates of call c that were stored
StoredCandidates(c) == {i \in DOMAIN fetch[c] : fetch[c][i].stored_path # None}

C27_ServedImagesStillStored ==
    (\A c \in Calls : download[c].pc = "returned") =>
        \A c \in Calls : \A k \in DOMAIN download[c].images :
            download[c].images[k].served \in bucket

(***************************************************************************)
(* Proxy service calls on the event loop: get_proxy_cache, _refresh,       *)
(* __get_proxies and validate_proxies.                                     *)
(***************************************************************************)
\* the force_refresh argument of caller k
ForceRefresh(k) == k = "extract_feed"

\* validate_proxies calls requests.get without awaiting: while it runs, the
\* event loop runs nothing else
LoopFree(k) == loop_holder \in {"nobody", k}

\* what caller k is left with when its __get_proxies pass ends with outcome
ProxyCallReturned(k, cache, outcome, passes) ==
    IF k = "refresher"
    THEN [pc |-> "returned", outcome |-> outcome, passes |-> passes, left |-> 0,
          proxies |-> RefreshedCache(cache, outcome), raised |-> FALSE]
    ELSE LET g == GetProxyCache(cache, TRUE, outcome)
         IN  [pc |-> "returned", outcome |-> outcome, passes |-> passes, left |-> 0,
              proxies |-> g.proxies, raised |-> g.raised]

\* the cache when caller k's __get_proxies pass ends with outcome
ProxyCacheAfter(k, cache, outcome) ==
    IF k = "refresher" THEN RefreshedCache(cache, outcome)
    ELSE GetProxyCache(cache, TRUE, outcome).cache

\* get_proxy_cache (127-132) or _refresh (150-153) is called: a warm read
\* returns the cache, anything else requests the proxy list
ProxyCall(k) ==
    /\ proxy_call[k].pc = "idle"
    /\ LoopFree(k)
    /\ IF k # "refresher" /\ ~(proxy_cache = "empty" \/ ForceRefresh(k))
       THEN proxy_call' = [proxy_call EXCEPT ![k] =
                [NoProxyCall EXCEPT !.pc = "returned",
                    !.proxies = GetProxyCache(proxy_cache, FALSE, "valid").proxies]]
       ELSE proxy_call' = [proxy_call EXCEPT ![k].pc = "requesting"]
    /\ UNCHANGED <<proxy_cache, loop_holder, batch, task, out_of_order, beside_proxy>>

\* __get_proxies: the response to the list request arrives (280-311)
ListResponse(k) ==
    /\ proxy_call[k].pc = "requesting"
    /\ LoopFree(k)
    /\ \E outcome \in ProxyFetchOutcomes :
         IF outcome \in {"valid", "none_valid"}
         THEN /\ proxy_call' = [proxy_call EXCEPT ![k].pc = "validating",
                                                  ![k].outcome = outcome,
                                                  ![k].left = NumProxies]
              /\ loop_holder' = k
              /\ UNCHANGED proxy_cache
         ELSE /\ proxy_call' = [proxy_call EXCEPT ![k] =
                                   ProxyCallReturned(k, proxy_cache, outcome, 1)]
              /\ proxy_cache' = ProxyCacheAfter(k, proxy_cache, outcome)
              /\ UNCHANGED loop_holder
    /\ UNCHANGED <<batch, task, out_of_order, beside_proxy>>

\* validate_proxies: one requests.get through a proxy (137-144)
ValidateOne(k) ==
    /\ proxy_call[k].pc = "validating"
    /\ proxy_call[k].left > 0
    /\ loop_holder = k
    /\ proxy_call' = [proxy_call EXCEPT ![k].left = @ - 1]
    /\ UNCHANGED <<proxy_cache, loop_holder, batch, task, out_of_order, beside_proxy>>

\* validate_proxies returns, __get_proxies caches and returns what passed
\* (146-147, 312-318), and the caller takes it (130-132, 154-157)
ValidationDone(k) ==
    /\ proxy_call[k].pc = "validating"
    /\ proxy_call[k].left = 0
    /\ loop_holder = k
    /\ proxy_call' = [proxy_call EXCEPT ![k] =
                         ProxyCallReturned(k, proxy_cache, proxy_call[k].outcome,
                                           proxy_call[k].passes + 1)]
    /\ proxy_cache' = ProxyCacheAfter(k, proxy_cache, proxy_call[k].outcome)
    /\ loop_holder' = "nobody"
    /\ UNCHANGED <<batch, task, out_of_order, beside_proxy>>

\* the caller goes on; it may call again
ProxyCallEnd(k) ==
    /\ proxy_call[k].pc = "returned"
    /\ LoopFree(k)
    /\ proxy_call' = [proxy_call EXCEPT ![k] = NoProxyCall]
    /\ UNCHANGED <<proxy_cache, loop_holder, batch, task, out_of_order, beside_proxy>>

InitProxy == PipelineAtRest /\ OutsideAtRest

NextProxy ==
    \E k \in ProxyCallers :
        \/ ProxyCall(k)
        \/ ListResponse(k)
        \/ ValidateOne(k)
        \/ ValidationDone(k)
        \/ ProxyCallEnd(k)

\* the callers of the proxy service and its background refresher on one
\* event loop
SpecProxy == InitProxy /\ [][NextProxy]_vars

(***************************************************************************)
(* Proxy service properties.                                               *)
(***************************************************************************)
\* C23: a call whose validation pass found no passing proxy has made exactly
\* one more pass before it returns
C23_ZeroValidRetriedOnce ==
    \A k \in ProxyCallers :
        (proxy_call[k].pc = "returned" /\ proxy_call[k].outcome = "none_valid")
            => proxy_call[k].passes = 2

\* C30: while a background refresh is in progress, every other caller of the
\* proxy service (an article pipeline fetching proxies, a caller reading the
\* current cache) is able to take its next step
C30_RefreshNeverDelaysCallers ==
    proxy_call["refresher"].pc \in {"requesting", "validating"} =>
        \A k \in ProxyCallers \ {"refresher"} : LoopFree(k)

(***************************************************************************)
(* HTTP surface: api/server.py (FastAPI) and api_flask/server_flask.py.    *)
(***************************************************************************)
\* the routes of each server
Endpoints(server) ==
    IF server = "fastapi"
    THEN {"/", "/health", "/stats", "/feed/warmup", "/feed/process"}
    ELSE {"/", "/ready", "/health", "/stats", "/feed/process"}

\* settings.api_key; a header value is the key it carries and whether it is
\* prefixed with "Bearer "
Keys == {"key", "wrong"}

HeaderValues == {None} \cup [bearer : BOOLEAN, key : Keys]

SettingsApiKey == [bearer |-> FALSE, key |-> "key"]

\* api_key[7:] if api_key.startswith("Bearer ")
RemoveBearer(api_key) == IF api_key.bearer THEN [api_key EXCEPT !.bearer = FALSE] ELSE api_key

\* verify_api_key of both servers: run for every route (the FastAPI app's
\* dependencies, Flask's before_request)
VerifyApiKey(require_api_key, endpoint, x_api_key, authorization) ==
    IF ~require_api_key THEN "ok"
    ELSE LET api_key == IF x_api_key # None THEN x_api_key ELSE authorization
         IN  IF api_key = None THEN "API key required"
             ELSE IF RemoveBearer(api_key) # SettingsApiKey THEN "Invalid API key"
             ELSE "ok"

\* the dates a request can name: d3 has no table
ApiDates == Dates \cup {"d3"}

TableExists(date) == date \in Dates

\* f"Table feed_entries_{date} not available"
TableNotAvailable(date) == <<"Table feed_entries_", date, " not available">>

\* DatabaseClientAndPool.fetch_feed_entries: the rows, or a DatabaseError
FetchFeedEntries(date, load) ==
    IF ~TableExists(date)
    THEN [raised |-> TRUE, e |-> "DatabaseError", message |-> TableNotAvailable(date)]
    ELSE IF load = "db_error"
    THEN [raised |-> TRUE, e |-> "DatabaseError", message |-> <<"Failed to fetch", date>>]
    ELSE [raised |-> FALSE, rows |-> Table(date)]

\* FeedProcessor.warm_up_server: the dict it returns
WarmUpServer(date, load) ==
    LET fetched == FetchFeedEntries(date, load)
    IN  IF fetched.raised
        THEN [status |-> "error", date |-> date, error |-> fetched.message,
              message |-> TableNotAvailable(date), timestamp |-> "now"]
        ELSE [status |-> "warmed_up", date |-> date,
              total_entries |-> Len(fetched.rows),
              message |-> <<"Server warmed up", Len(fetched.rows), date>>,
              timestamp |-> "now"]

\* FeedProcessor.process_all_feed_entries: the dict it returns for a run in
\* which failed of the entries fail
ProcessAllFeedEntries(date, cached, load, failed) ==
    LET fetched == IF cached THEN [raised |-> FALSE, rows |-> Table(date)]
                   ELSE FetchFeedEntries(date, load)
    IN  IF fetched.raised
        THEN [status |-> "error", date |-> date, error |-> fetched.message,
              message |-> TableNotAvailable(date), timestamp |-> "now"]
        ELSE IF fetched.rows = <<>>
        THEN [status |-> "no_entries", date |-> date,
              message |-> <<"No feed entries found", date>>, timestamp |-> "now"]
        ELSE [status |-> "completed", date |-> date,
              total_entries |-> Len(fetched.rows),
              successful |-> Len(fetched.rows) - failed, failed |-> failed,
              processing_time |-> 0,
              message |-> <<"Processed", Len(fetched.rows), date>>,
              timestamp |-> "now"]

\* the fields of the pydantic response models
FeedWarmupResponse == {"status", "date", "total_entries", "message", "timestamp"}

FeedProcessResponse ==
    {"status", "message", "date", "total_entries", "successful", "failed",
     "processing_time", "timestamp"}

\* the body of the fire-and-forget branch
StartedBody(date) ==
    [status |-> "started", message |-> <<"MASX AI background processing initiated", date>>,
     date |-> date, total_entries |-> 0, successful |-> 0, failed |-> 0,
     processing_time |-> 0, timestamp |-> "now"]

HttpResponse(status_code, body) == [status_code |-> status_code, body |-> body]

\* Model(**result): a missing field is a ValidationError, which the handler's
\* "except Exception" turns into a 500
Validated(model, result, failure) ==
    IF model \subseteq DOMAIN result
    THEN HttpResponse(200, [f \in model |-> result[f]])
    ELSE HttpResponse(500, [detail |-> failure])

\* the FastAPI handlers (server.py 229-413)
FastapiHandler(endpoint, date, trigger, cached, load, failed) ==
    CASE endpoint = "/feed/warmup" ->
            Validated(FeedWarmupResponse, WarmUpServer(date, load), "Warm-up failed")
      [] endpoint = "/feed/process" ->
            IF trigger = "masxai" THEN HttpResponse(200, StartedBody(date))
            ELSE Validated(FeedProcessResponse,
                           ProcessAllFeedEntries(date, cached, load, failed),
                           "Processing failed")
      [] OTHER -> HttpResponse(200, [status |-> "operational"])

\* the Flask handlers (server_flask.py 172-305, 521-524)
FlaskHandler(endpoint, date, trigger, cached, load, failed) ==
    CASE endpoint = "/feed/process" ->
            IF trigger = "masxai" THEN HttpResponse(200, StartedBody(date))
            ELSE HttpResponse(200, ProcessAllFeedEntries(date, cached, load, failed))
      [] OTHER -> HttpResponse(200, [status |-> "operational"])

\* a request as the server answers it
Serve(server, require_api_key, request, cached) ==
    LET verified == VerifyApiKey(require_api_key, request.endpoint,
                                 request.x_api_key, request.authorization)
    IN  IF verified # "ok" THEN HttpResponse(401, [detail |-> verified])
        ELSE IF server = "fastapi"
        THEN FastapiHandler(request.endpoint, request.date, request.trigger,
                            cached, request.load, request.failed)
        ELSE FlaskHandler(request.endpoint, request.date, request.trigger,
                          cached, request.load, request.failed)

FeedEndpoints == {"/feed/warmup", "/feed/process"}

\* the requests a client can send to the server; what a route does not read
\* is left out
Requests(server) ==
    {q \in [endpoint : Endpoints(server), x_api_key : HeaderValues,
            authorization : HeaderValues, date : ApiDates \cup {"none"},
            trigger : Triggers, load : LoadOutcomes, failed : 0..1] :
        IF q.endpoint \in FeedEndpoints
        THEN /\ q.date \in ApiDates
             /\ q.endpoint = "/feed/warmup" => q.trigger = "none"
             /\ (q.endpoint = "/feed/warmup" \/ q.trigger = "masxai") => q.failed = 0
        ELSE q.date = "none" /\ q.trigger = "none" /\ q.load = "rows" /\ q.failed = 0}

\* the server handles one request: set_date, the load into all_feed_entries
\* and the statistics are the handler's effects on the FeedProcessor
HandleRequest ==
    /\ http.count < MaxRequests
    /\ \E q \in Requests(deployment.server) :
         LET cached == q.endpoint = "/feed/process" /\ q.date \in all_feed_entries
             response == Serve(deployment.server, deployment.require_api_key, q, cached)
             entered == response.status_code # 401 /\ q.endpoint \in FeedEndpoints
             ran == entered /\ q.trigger # "masxai"
             loaded == ran /\ (cached \/ ~FetchFeedEntries(q.date, q.load).raised)
         IN  /\ http' = [count |-> http.count + 1, request |-> q, response |-> response]
             /\ feed_date' = IF entered THEN q.date ELSE feed_date
             /\ all_feed_entries' = IF loaded THEN all_feed_entries \cup {q.date}
                                    ELSE all_feed_entries
             /\ processing_stats' =
                    IF loaded /\ q.endpoint = "/feed/process"
                    THEN processing_stats + Len(Table(q.date))
                    ELSE processing_stats
    /\ UNCHANGED <<deployment, feed_counts, proxy_cache, batch, task, out_of_order, feed_pc,
                   feed_run, db, refresher_task, refreshers, beside_api>>

\* either server, with or without require_api_key
InitApi ==
    /\ PipelineAtRest
    /\ FeedAtRest /\ TranslationAtRest /\ ImagesAtRest /\ ProxyCallsAtRest /\ AsideAtRest
    /\ deployment \in [server : Servers, require_api_key : BOOLEAN]
    /\ http = NoRequest
    /\ feed_counts = None

NextApi == HandleRequest

SpecApi == InitApi /\ [][NextApi]_vars

(***************************************************************************)
(* HTTP surface properties.                                                *)
(***************************************************************************)
\* the request handled last carried the shared key
CarriesKey(q) ==
    \/ q.x_api_key # None /\ q.x_api_key.key = "key"
    \/ q.authorization # None /\ q.authorization.key = "key"

\* C24: warming up or processing a date whose table does not exist is
\* answered with HTTP 404 and detail "Table feed_entries_<date> not available"
C24_MissingTableIs404 ==
    (/\ http.request # None
     /\ http.response.status_code # 401
     /\ http.request.endpoint \in FeedEndpoints
     /\ http.request.trigger # "masxai"
     /\ ~TableExists(http.request.date))
        => /\ http.response.status_code = 404
           /\ http.response.body = [detail |-> TableNotAvailable(http.request.date)]

\* C25: with require_api_key on, a request without the valid key is rejected
\* on every route but / and /ready, and / and /ready are served without a key
C25_KeyRequiredExceptRootAndReady ==
    (deployment.require_api_key /\ http.request # None) =>
        /\ (http.request.endpoint \notin {"/", "/ready"} /\ ~CarriesKey(http.request))
               => http.response.status_code = 401
        /\ (http.request.endpoint \in {"/", "/ready"}
                /\ http.request.x_api_key = None /\ http.request.authorization = None)
               => http.response.status_code = 200

(***************************************************************************)
(* Batch executor on an empty list.                                        *)
(***************************************************************************)
SpecEmptyBatch == InitEmptyBatch /\ [][Next]_vars

\* C26: process_batch on an empty article list returns status completed with
\* total 0, successful 0, failed 0 and no results, having created no sub-batch
\* and no article task
C26_EmptyBatchCompletesWithZeros ==
    \A r \in Runs :
        (batch[r].article_data_list = <<>> /\ batch[r].pc = "returned") =>
            /\ batch[r].ret.status = "completed"
            /\ batch[r].ret.total_articles = 0
            /\ batch[r].ret.processed = 0
            /\ batch[r].ret.successful = 0
            /\ batch[r].ret.failed = 0
            /\ batch[r].ret.results = <<>>
            /\ batch[r].ret.sub_batches_processed = 0
            /\ DOMAIN task[r] = {}

C26_Witness ==
    \E r \in Runs :
        /\ batch[r].article_data_list = <<>>
        /\ batch[r].pc = "returned"
        /\ batch[r].ret.status = "completed"

(***************************************************************************)
(* Feed processor: the counts of _process_feed_entries and                 *)
(* _process_feed_entries_batch.                                            *)
(***************************************************************************)
\* the entries FeedModel.from_feed_entry accepts, in order
RECURSIVE Converted(_, _, _)
Converted(feed_entries, convertible, i) ==
    IF i > Len(feed_entries) THEN <<>>
    ELSE (IF convertible[i] THEN <<feed_entries[i]>> ELSE <<>>)
             \o Converted(feed_entries, convertible, i + 1)

\* the loop of _process_feed_entries (lines 297-332): one entry after the
\* other is converted, processed and written back
RECURSIVE SequentialLoop(_, _, _, _, _, _, _)
SequentialLoop(feed_entries, convertible, outcomes, upserts, date, i, acc) ==
    IF i > Len(feed_entries) THEN acc
    ELSE IF ~convertible[i]
    THEN SequentialLoop(feed_entries, convertible, outcomes, upserts, date, i + 1,
                        [acc EXCEPT !.failed = @ + 1])
    ELSE LET result == ArticleResult(feed_entries[i], outcomes[i])
             u == Upsert(date, result.enriched_data, upserts[i])
         IN  IF result.status # "completed"
             THEN SequentialLoop(feed_entries, convertible, outcomes, upserts, date, i + 1,
                                 [acc EXCEPT !.failed = @ + 1])
             ELSE SequentialLoop(feed_entries, convertible, outcomes, upserts, date, i + 1,
                    [successful |-> acc.successful + (IF u = "saved" THEN 1 ELSE 0),
                     failed |-> acc.failed + (IF u = "saved" THEN 0 ELSE 1),
                     updates |-> Append(acc.updates,
                                        [table |-> date, id |-> result.enriched_data.id,
                                         flashpoint_id |-> result.enriched_data.flashpoint_id,
                                         position |-> i, outcome |-> u])])

\* FeedProcessor._process_feed_entries
ProcessFeedEntries(feed_entries, convertible, outcomes, upserts, date) ==
    SequentialLoop(feed_entries, convertible, outcomes, upserts, date, 1, NoneWritten)

\* FeedProcessor._process_feed_entries_batch: the entries that fail
\* conversion are counted failed (357-365), then the batch is processed and
\* its results written back (379-422)
ProcessFeedEntriesBatch(feed_entries, convertible, outcomes, critical_at, upserts, date) ==
    LET article_data_list == Converted(feed_entries, convertible, 1)
        failed == Len(feed_entries) - Len(article_data_list)
    IN  IF article_data_list = <<>>
        THEN [NoneWritten EXCEPT !.failed = Len(feed_entries)]
        ELSE LET data_results == ProcessBatch(article_data_list, outcomes, critical_at)
                 saved == SaveResults(data_results, article_data_list, upserts, date)
             IN  IF data_results.status = "completed"
                 THEN [saved EXCEPT !.failed = failed + @]
                 \* failed = len(article_data_list), line 419
                 ELSE saved

FeedModes == {"batch", "sequential"}

\* the number of sub-batches process_batch makes of n articles
SubBatchCount(n) == Len(CreateSubBatches(n, CalculateOptimalBatchSize(n)))

\* one call of _process_feed_entries_batch or _process_feed_entries over the
\* first n rows of table d1
ProcessFeedEntriesCall ==
    /\ feed_counts = None
    /\ \E mode \in FeedModes, n \in 1..NumArticles :
        \E convertible \in [1..n -> BOOLEAN], outcomes \in [1..n -> ProcessArticleOutcomes],
           upserts \in [1..n -> UpsertOutcomes], critical_at \in 0..SubBatchCount(n) :
          LET feed_entries == FeedList(1, n)
              m == Len(Converted(feed_entries, convertible, 1))
              results ==
                  IF mode = "batch"
                  THEN ProcessFeedEntriesBatch(feed_entries, convertible, outcomes,
                                               critical_at, upserts, "d1")
                  ELSE ProcessFeedEntries(feed_entries, convertible, outcomes, upserts, "d1")
          IN  \* what the call does not read is left out
              /\ \A i \in 1..n : ((mode = "batch" /\ i > m) \/ (mode = "sequential" /\ ~convertible[i]))
                                     => outcomes[i] = "failed"
              /\ \A i \in 1..n : ((mode = "batch" /\ i > m) \/ outcomes[i] = "failed")
                                     => upserts[i] = "saved"
              /\ critical_at <= (IF mode = "batch" THEN SubBatchCount(m) ELSE 0)
              /\ feed_counts' = [mode |-> mode, feed_entries |-> feed_entries,
                                 convertible |-> convertible, outcomes |-> outcomes,
                                 upserts |-> upserts, critical_at |-> critical_at,
                                 successful |-> results.successful,
                                 failed |-> results.failed]
              /\ db' = db \cup RowsOf(results.updates)
              /\ UNCHANGED <<deployment, http, proxy_cache, batch, task, out_of_order, feed_pc,
                             feed_run, feed_date, all_feed_entries, refresher_task, refreshers,
                             processing_stats, beside_api>>

InitCounts == PipelineAtRest /\ OutsideAtRest

NextCounts == ProcessFeedEntriesCall

SpecCounts == InitCounts /\ [][NextCounts]_vars

(***************************************************************************)
(* Feed processor: the date of a run and its counts.                       *)
(***************************************************************************)
\* C28: a run requested for a date loads the entries of that date, passes
\* that date to process_batch (the folder of its images) and issues its
\* updates against that date's table, whatever other requests do
C28_RunKeepsRequestedDate ==
    \A r \in Runs :
        /\ feed_run[r].loaded # "" => feed_run[r].loaded = feed_run[r].requested
        /\ feed_run[r].batch_date # "" => feed_run[r].batch_date = feed_run[r].requested
        /\ feed_run[r].results # None =>
               \A k \in 1..Len(feed_run[r].results.updates) :
                   feed_run[r].results.updates[k].table = feed_run[r].requested

\* C29: the successful and failed counts a run returns add up to the number
\* of entries it was given
C29_CountsAddUpToEntries ==
    feed_counts # None =>
        feed_counts.successful + feed_counts.failed = Len(feed_counts.feed_entries)

(***************************************************************************)
(* The article tasks of one sub-batch on the event loop.                   *)
(*                                                                         *)
(* _process_sub_batch creates one task per article and gathers them.  A    *)
(* task gives the loop to its siblings only at an await of real I/O: the   *)
(* scrape, the image search and the image fetches.  _try_provider calls    *)
(* the translators (gt.translate, tr.translate, requests in                *)
(* _freeapi_translate) and download_images calls _clear_directory, both    *)
(* synchronous: the task keeps the loop until the call returns.            *)
(***************************************************************************)

LoopTasks == 1..NumArticles

\* the calls that do not give the loop away while they wait for the network
SynchronousCalls == {"try_provider", "clear_directory"}

\* task i is inside a synchronous network call
Holding(i) == loop_task[i] \in SynchronousCalls

\* the loop can run task j: no other task is inside a synchronous call
LoopFreeFor(j) == \A i \in DOMAIN loop_task : i # j => ~Holding(i)

\* for article_data in sub_batch: asyncio.create_task(process_article(...))
CreateTasks ==
    /\ loop_task = <<>>
    /\ loop_task' = [i \in LoopTasks |-> "created"]
    /\ UNCHANGED <<proxy_cache, batch, task, out_of_order, feed_vars, translation_vars,
                   image_vars, proxy_vars, api_vars, cache_use, extraction, chunking,
                   connection>>

\* one step of task i: from one stage of process_article to the next
LoopStep(i, from, to) ==
    /\ loop_task # <<>>
    /\ loop_task[i] = from
    /\ LoopFreeFor(i)
    /\ loop_task' = [loop_task EXCEPT ![i] = to]
    /\ UNCHANGED <<proxy_cache, batch, task, out_of_order, feed_vars, translation_vars,
                   image_vars, proxy_vars, api_vars, cache_use, extraction, chunking,
                   connection>>

\* await self._scrape_article(...): the task waits and the loop is free
AwaitScrape(i) == LoopStep(i, "created", "scrape")

\* the scrape is back; _translate_title: an English title needs no provider,
\* any other one reaches _try_provider and its synchronous translate call
ScrapeReturns(i) ==
    \E language \in {"en", "other"} :
        LoopStep(i, "scrape", IF language = "en" THEN "find_images" ELSE "try_provider")

\* the translator answered; entities and geotags are computed, then
\* await self._find_images(...)
ProviderReturns(i) == LoopStep(i, "try_provider", "find_images")

\* the image search is back: _download_images only if there are images, and
\* download_images starts with the synchronous _clear_directory
FindImagesReturns(i) ==
    \E images \in {0, 1} :
        LoopStep(i, "find_images", IF images > 0 THEN "clear_directory" ELSE "done")

\* the storage answered; await asyncio.gather(*tasks) over the fetches
ClearDirectoryReturns(i) == LoopStep(i, "clear_directory", "fetch_images")

\* the fetches are back, process_article returns its result
FetchesReturn(i) == LoopStep(i, "fetch_images", "done")

\* task_results = await asyncio.gather(*tasks, return_exceptions=True)
GatherReturns ==
    /\ loop_task # <<>>
    /\ \A i \in DOMAIN loop_task : loop_task[i] = "done"
    /\ loop_task' = [i \in DOMAIN loop_task |-> "returned"]
    /\ UNCHANGED <<proxy_cache, batch, task, out_of_order, feed_vars, translation_vars,
                   image_vars, proxy_vars, api_vars, cache_use, extraction, chunking,
                   connection>>

InitLoop == PipelineAtRest /\ OutsideAtRest

NextLoop ==
    \/ CreateTasks
    \/ \E i \in LoopTasks : AwaitScrape(i)
    \/ \E i \in LoopTasks : ScrapeReturns(i)
    \/ \E i \in LoopTasks : ProviderReturns(i)
    \/ \E i \in LoopTasks : FindImagesReturns(i)
    \/ \E i \in LoopTasks : ClearDirectoryReturns(i)
    \/ \E i \in LoopTasks : FetchesReturn(i)
    \/ GatherReturns

SpecLoop == InitLoop /\ [][NextLoop]_vars

\* C31: an article stalled in one stage does not stop its sibling pipelines
\* from making progress: while a task waits inside a stage, every sibling
\* that has not finished can still be run by the loop
C31_StalledArticleLeavesSiblingsRunnable ==
    \A i \in DOMAIN loop_task : \A j \in DOMAIN loop_task :
        (/\ i # j
         /\ loop_task[i] \in {"scrape", "try_provider", "find_images",
                              "clear_directory", "fetch_images"}
         /\ loop_task[j] \notin {"done", "returned"})
        => LoopFreeFor(j)

(***************************************************************************)
(* Further properties of the proxy service.                                *)
(***************************************************************************)
\* C32: a background refresh that ends without a valid proxy (none passed
\* validation, the list was empty, or the request failed) leaves a non-empty
\* cache as it was
C32_FruitlessRefreshKeepsCache ==
    [][(/\ proxy_call["refresher"].pc # "returned"
        /\ proxy_call'["refresher"].pc = "returned"
        /\ proxy_call'["refresher"].outcome # "valid"
        /\ proxy_cache = "full")
       => proxy_cache' = "full"]_vars

(***************************************************************************)
(* Further properties of the translation manager.                          *)
(***************************************************************************)
\* C33: a provider that a pre-check turned away in a translate call (language
\* not supported, text too long) delivered nothing in that call, and the call
\* left its circuit breaker and its enabled flag as they were
C33_SkippedProviderNotCharged ==
    [][\A p \in last_call'.skipped :
           /\ p \notin last_call'.delivered
           /\ circuits'[p] = circuits[p]
           /\ providers_enabled'[p] = providers_enabled[p]]_vars

\* a provider with two failures on its breaker was turned away by a pre-check
\* and still has two
C33_Witness ==
    \E p \in last_call.skipped :
        /\ circuits[p].fail_count = FAIL_THRESHOLD - 1
        /\ providers_enabled[p]

(***************************************************************************)
(* The translation cache under translate calls of several texts, with room *)
(* for CacheCapacity entries.  cache_use follows the calls beside the      *)
(* cache: the keys in the order of their last use (an insertion or a hit), *)
(* the keys in the order of their insertion, and for the last call the key *)
(* that left the cache and the keys that were least recently used and      *)
(* first inserted among the cached ones.                                   *)
(***************************************************************************)
CacheTexts == {<<"a">>, <<"b">>, <<" ", "b">>, <<"c">>}

\* the key translate builds: (text.strip(), source, target)
CacheKey(text) == <<Strip(text), "fr", "en">>

KeysOf(cache_) == {cache_[k].key : k \in 1..Len(cache_)}

\* key becomes the last of order
Touch(order, key) == Append(SelectSeq(order, LAMBDA k : k # key), key)

\* the first key of order that is cached, as a set
FirstCached(order, cache_) ==
    LET at == {k \in 1..Len(order) : order[k] \in KeysOf(cache_)}
    IN  IF at = {} THEN {}
        ELSE {order[CHOOSE k \in at : \A l \in at : k <= l]}

\* translate finds the text in the cache: _cache_get (133-135)
CacheHit(text) ==
    LET key == CacheKey(text)
        cached == CacheGet(translation_cache, key)
    IN  /\ cached.val # None
        /\ translation_cache' = cached.cache
        /\ cache_use' = [NoCacheUse EXCEPT !.used = Touch(cache_use.used, key),
                                           !.put = cache_use.put]
        /\ UNCHANGED <<clock, circuits, providers_enabled, last_call, streak, tried_barred,
                       loop_task, extraction, chunking, connection, proxy_cache, batch, task, out_of_order,
                       feed_vars, image_vars, proxy_vars, api_vars>>

\* translate does not find it and a provider translates it: _cache_put (145)
CacheMissPut(text, provider) ==
    LET key == CacheKey(text)
        cached == CacheGet(translation_cache, key)
        after == CachePutAt(cached.cache, key, Translation(provider, text), CacheCapacity)
        gone == (KeysOf(translation_cache) \cup {key}) \ KeysOf(after)
    IN  /\ cached.val = None
        /\ translation_cache' = after
        /\ cache_use' =
               [used |-> Touch(cache_use.used, key),
                put |-> Touch(cache_use.put, key),
                evicted |-> gone,
                lru |-> IF Len(translation_cache) >= CacheCapacity
                        THEN FirstCached(cache_use.used, translation_cache) ELSE {},
                oldest |-> IF Len(translation_cache) >= CacheCapacity
                           THEN FirstCached(cache_use.put, translation_cache) ELSE {}]
        /\ UNCHANGED <<clock, circuits, providers_enabled, last_call, streak, tried_barred,
                       loop_task, extraction, chunking, connection, proxy_cache, batch, task, out_of_order,
                       feed_vars, image_vars, proxy_vars, api_vars>>

InitCache == PipelineAtRest /\ OutsideAtRest

NextCache ==
    \/ \E text \in CacheTexts : CacheHit(text)
    \/ \E text \in CacheTexts, provider \in Providers : CacheMissPut(text, provider)

SpecCache == InitCache /\ [][NextCache]_vars

\* C38: the cache never holds more than its capacity, and an insertion into
\* a full cache evicts the one cached entry whose last use, insertion or hit,
\* is the oldest
C38_CacheBoundedEvictsLeastRecentlyUsed ==
    /\ Len(translation_cache) <= CacheCapacity
    /\ cache_use.evicted = cache_use.lru

\* an insertion evicted an entry that was not the first inserted: a hit had
\* made the older entry the more recently used one
C38_Witness ==
    /\ cache_use.evicted # {}
    /\ cache_use.evicted # cache_use.oldest
    /\ Len(translation_cache) = CacheCapacity

(***************************************************************************)
(* Further properties of the article pipeline.                             *)
(***************************************************************************)
\* C34: an article whose language detection failed goes on to the title
\* translation with the empty string as its language and language_setting
\* among its steps; the failed detection never is what ends the article
C34_DetectionFailureContinues ==
    \A r \in Runs : \A i \in Tasks(r) :
        LET t == task[r][i]
        IN  t.fault = "language_setting" =>
                /\ t.raised = ""
                /\ Len(t.processing_steps) >= Position("language_setting")
                /\ t.processing_steps[Position("language_setting")] = "language_setting"
                /\ t.pc = "translation" =>
                       /\ t.extracted_data.language = ""
                       /\ t.result = None
                /\ Done(r, i) =>
                       /\ t.result.status = "completed"
                       /\ t.result.enriched_data.language = ""

\* an article whose language detection failed ended completed
C34_Witness ==
    \E i \in Tasks(1) :
        /\ Completed(1, i)
        /\ task[1][i].fault = "language_setting"
        /\ task[1][i].result.enriched_data.language = ""

(***************************************************************************)
(* Content extraction: NewsContentExtractor._scrape_multilang_feeds over   *)
(* what TrafilaturaExtractor.scrape_article and                            *)
(* Crawl4AIExtractor.crawl4ai_scrape give for one URL.                     *)
(***************************************************************************)
WordCounts == {500, 1500, 2500}

\* an extractor's ExtractResult, as far as the merge and the checks read it
ExtractorResults ==
    [kind : {"result"}, word_count : WordCounts, author : {"", "A"},
     images : {<<>>, <<"">>, <<"img">>}]

NoResult(kind) == [kind |-> kind, word_count |-> 0, author |-> "", images |-> <<>>]

\* TrafilaturaExtractor.scrape_article: raises ScrapingError on an invalid
\* URL, returns None when its attempts are used up, else a result whose
\* images is [main_image]
TrafilaturaOutcomes ==
    {NoResult("raise"), NoResult("none")}
        \cup {r \in ExtractorResults : Len(r.images) = 1}

\* Crawl4AIExtractor.crawl4ai_scrape: None on any failure, else a result
\* whose images are the image URLs found in the content
CrawlOutcomes ==
    {NoResult("none")} \cup {r \in ExtractorResults : r.images # <<"">>}

Truthy(r) == r.kind = "result"

\* the methods class Crawl4AIExtractor defines
Crawl4AIExtractorMethods ==
    {"crawl4ai_scrape", "crawl4ai_scrape_with_retry", "trafilatura_from_html",
     "beautifulSoup_from_html"}

\* NewsContentExtractor._merge_results: [raised, value]
MergeResults(traf_result, crawl_result) ==
    IF traf_result.kind = "raise"
    THEN [raised |-> TRUE, value |-> crawl_result]   \* traf_result is unbound
    ELSE IF ~Truthy(traf_result)
    THEN [raised |-> FALSE, value |-> crawl_result]
    ELSE IF crawl_result.images = <<>>
    THEN [raised |-> TRUE, value |-> crawl_result]   \* crawl_result.images[0]
    ELSE [raised |-> FALSE,
          value |-> [crawl_result EXCEPT
                        !.author = IF @ = "" /\ traf_result.author # ""
                                   THEN traf_result.author ELSE @,
                        !.images = IF @[1] = "" /\ traf_result.images # <<>>
                                   THEN traf_result.images ELSE @]]

\* NewsContentExtractor._scrape_multilang_feeds with proxies at hand:
\* [raised, value]
ScrapeMultilangFeeds(traf, crawl, proxies) ==
    IF Truthy(traf) /\ traf.word_count > 1000
    THEN [raised |-> FALSE, value |-> traf]
    ELSE LET \* line 131: the result of the quick crawl is dropped
             crawl_result == NoResult("none")
         IN  IF ~Truthy(crawl_result) /\ proxies > 0
             THEN IF "crawl4ai_scrape_with_retry_and_proxy" \in Crawl4AIExtractorMethods
                  THEN LET retried == IF Truthy(crawl) /\ crawl.word_count < 2000
                                      THEN NoResult("none") ELSE crawl
                       IN  IF ~Truthy(retried)
                           THEN [raised |-> TRUE, value |-> NoResult("none")]
                           ELSE MergeResults(traf, retried)
                  ELSE [raised |-> TRUE, value |-> NoResult("none")]  \* AttributeError
             ELSE [raised |-> TRUE, value |-> NoResult("none")]       \* ValueError

\* one call of _scrape_multilang_feeds(url, proxies) from extract_feed, which
\* has checked that proxies is not empty
ScrapeMultilangFeedsCall ==
    /\ extraction = None
    /\ \E traf \in TrafilaturaOutcomes, crawl \in CrawlOutcomes, proxies \in 1..NumProxies :
         extraction' = [traf |-> traf, crawl |-> crawl, proxies |-> proxies,
                        ret |-> ScrapeMultilangFeeds(traf, crawl, proxies)]
    /\ UNCHANGED <<proxy_cache, batch, task, out_of_order, feed_vars, translation_vars,
                   image_vars, proxy_vars, api_vars, loop_task, cache_use, chunking,
                   connection>>

InitExtract == PipelineAtRest /\ OutsideAtRest

NextExtract == ScrapeMultilangFeedsCall

SpecExtract == InitExtract /\ [][NextExtract]_vars

\* C35: when the primary extractor failed or its output was rejected and the
\* fallback crawler gave a usable result, extraction does not raise and
\* returns the crawler's result
C35_UsableFallbackIsReturned ==
    (/\ extraction # None
     /\ ~(Truthy(extraction.traf) /\ extraction.traf.word_count > 1000)
     /\ Truthy(extraction.crawl)
     /\ extraction.crawl.word_count >= 2000)
    => /\ ~extraction.ret.raised
       /\ Truthy(extraction.ret.value)
       /\ extraction.ret.value.word_count = extraction.crawl.word_count

(***************************************************************************)
(* Further properties of the feed processor.                               *)
(***************************************************************************)
\* C36: no step of a processing run (a request to process a date and all it
\* starts) changes the feed entries held in memory by date
C36_ProcessingRunsOnlyReadFeedMap ==
    [][all_feed_entries' = all_feed_entries]_vars

(***************************************************************************)
(* Entity tagger: EntityTagger._iter_chunks over texts of characters and   *)
(* newlines.                                                               *)
(***************************************************************************)
ChunkTexts == UNION {[1..n -> {"x", "\n"}] : n \in 0..MaxTextLen}

\* str.splitlines(keepends=True) from position i on, line being the
\* characters of the current line read so far
RECURSIVE SplitLinesFrom(_, _, _)
SplitLinesFrom(text, i, line) ==
    IF i > Len(text) THEN (IF line = <<>> THEN <<>> ELSE <<line>>)
    ELSE IF text[i] = "\n"
    THEN <<Append(line, text[i])>> \o SplitLinesFrom(text, i + 1, <<>>)
    ELSE SplitLinesFrom(text, i + 1, Append(line, text[i]))

SplitLines(text) == SplitLinesFrom(text, 1, <<>>)

\* "".join(acc)
RECURSIVE Join(_)
Join(acc) == IF acc = <<>> THEN <<>> ELSE Head(acc) \o Join(Tail(acc))

\* the for loop of _iter_chunks over the lines from the k-th on, acc being
\* the lines accumulated (acc_len is the length of their join)
RECURSIVE ChunkLoop(_, _, _)
ChunkLoop(lines, k, acc) ==
    IF k > Len(lines) THEN (IF acc # <<>> THEN <<Join(acc)>> ELSE <<>>)
    ELSE IF Len(Join(acc)) + Len(lines[k]) > ChunkChars /\ acc # <<>>
    THEN <<Join(acc)>> \o ChunkLoop(lines, k + 1, <<lines[k]>>)
    ELSE ChunkLoop(lines, k + 1, Append(acc, lines[k]))

\* EntityTagger._iter_chunks: the chunks it yields, in order
IterChunks(text) ==
    IF Len(text) <= ChunkChars THEN <<text>>
    ELSE ChunkLoop(SplitLines(text), 1, <<>>)

\* one call of _iter_chunks(text)
IterChunksCall ==
    /\ chunking = None
    /\ \E text \in ChunkTexts :
         chunking' = [text |-> text, chunks |-> IterChunks(text)]
    /\ UNCHANGED <<proxy_cache, batch, task, out_of_order, feed_vars, translation_vars,
                   image_vars, proxy_vars, api_vars, loop_task, cache_use, extraction,
                   connection>>

InitChunks == PipelineAtRest /\ OutsideAtRest

NextChunks == IterChunksCall

SpecChunks == InitChunks /\ [][NextChunks]_vars

\* the lines of all the chunks, in order
RECURSIVE LinesOfChunks(_)
LinesOfChunks(chunks) ==
    IF chunks = <<>> THEN <<>>
    ELSE SplitLines(Head(chunks)) \o LinesOfChunks(Tail(chunks))

\* C37: every chunk has at most chunk_chars characters, no line is broken,
\* and the chunks in order hold every line of the text exactly once
C37_ChunksBoundedAndHoldEveryLine ==
    chunking # None =>
        /\ \A k \in DOMAIN chunking.chunks : Len(chunking.chunks[k]) <= ChunkChars
        /\ LinesOfChunks(chunking.chunks) = SplitLines(chunking.text)
        /\ Join(chunking.chunks) = chunking.text

(***************************************************************************)
(* Database client: DatabaseClientAndPool.connect.                         *)
(***************************************************************************)
\* what can fail in one attempt: the pool URL check, create_pool (or
\* create_client), the test query
AttemptFailures == {"DatabaseError", "create_pool", "test_client"}

\* a wait that counts the attempts from one
BackoffFromOne(retry_delay, attempt) == retry_delay * 2 ^ (attempt + 1)

\* self._retry_delay * (2**attempt)
Backoff(retry_delay, attempt) == retry_delay * 2 ^ attempt

\* connect() is called: for attempt in range(self._max_retries)
ConnectCall ==
    /\ connection = None
    /\ \E n \in 0..MaxRetryAttempts, d \in 1..MaxRetryDelay :
         connection' = [retry_attempts |-> n, retry_delay |-> d,
                        pc |-> IF n > 0 THEN "attempting" ELSE "returned",
                        attempt |-> 0, attempts |-> 0, waits |-> <<>>,
                        e |-> "", connected |-> FALSE, raised |-> FALSE]
    /\ UNCHANGED <<proxy_cache, batch, task, out_of_order, feed_vars, translation_vars,
                   image_vars, proxy_vars, api_vars, loop_task, cache_use, extraction,
                   chunking>>

\* the body of the try: the client, the pool and the test query succeed
AttemptSucceeds ==
    /\ connection # None
    /\ connection.pc = "attempting"
    /\ connection' = [connection EXCEPT !.attempts = @ + 1, !.connected = TRUE,
                                        !.pc = "returned"]
    /\ UNCHANGED <<proxy_cache, batch, task, out_of_order, feed_vars, translation_vars,
                   image_vars, proxy_vars, api_vars, loop_task, cache_use, extraction,
                   chunking>>

\* the body of the try raises: sleep if an attempt is left, else raise
\* ConnectionError
AttemptFails ==
    /\ connection # None
    /\ connection.pc = "attempting"
    /\ \E e \in AttemptFailures :
         connection' =
             IF connection.attempt < connection.retry_attempts - 1
             THEN [connection EXCEPT !.attempts = @ + 1, !.e = e, !.pc = "sleeping"]
             ELSE [connection EXCEPT !.attempts = @ + 1, !.e = e, !.pc = "raised",
                                     !.raised = TRUE]
    /\ UNCHANGED <<proxy_cache, batch, task, out_of_order, feed_vars, translation_vars,
                   image_vars, proxy_vars, api_vars, loop_task, cache_use, extraction,
                   chunking>>

\* await asyncio.sleep(...) ends and the loop goes to the next attempt
SleepEnds ==
    /\ connection # None
    /\ connection.pc = "sleeping"
    /\ connection' =
           [connection EXCEPT
               !.waits = Append(@, Backoff(connection.retry_delay, connection.attempt)),
               !.attempt = @ + 1,
               !.pc = "attempting"]
    /\ UNCHANGED <<proxy_cache, batch, task, out_of_order, feed_vars, translation_vars,
                   image_vars, proxy_vars, api_vars, loop_task, cache_use, extraction,
                   chunking>>

InitConnect == PipelineAtRest /\ OutsideAtRest

NextConnect == ConnectCall \/ AttemptSucceeds \/ AttemptFails \/ SleepEnds

SpecConnect == InitConnect /\ [][NextConnect]_vars

\* C39: connect makes at most retry_attempts attempts; the wait after the
\* k-th attempt (k from 0) is retry_delay * 2^k and there is one wait
\* between any two consecutive attempts; a successful attempt is the last
\* one; and ConnectionError is raised exactly when attempt number
\* retry_attempts has failed
C39_ConnectRetriesWithBackoff ==
    connection # None =>
        /\ connection.attempts <= connection.retry_attempts
        /\ \A k \in DOMAIN connection.waits :
               connection.waits[k] = connection.retry_delay * 2 ^ (k - 1)
        /\ connection.pc = "attempting" => Len(connection.waits) = connection.attempts
        /\ connection.pc # "attempting" /\ connection.attempts > 0 =>
               Len(connection.waits) = connection.attempts - 1
        /\ connection.connected => connection.pc = "returned"
        /\ connection.raised <=>
               /\ connection.attempts = connection.retry_attempts
               /\ connection.attempts > 0
               /\ connection.pc # "attempting"
               /\ ~connection.connected

\* three attempts failed, with waits of 2 and 4 between them, and connect raised
C39_Witness ==
    /\ connection # None
    /\ connection.raised
    /\ connection.attempts = 3
    /\ connection.waits = <<2, 4>>

====
